---- MODULE Spec2Model ----
(***************************************************************************)
(* A model of the episode ingestion and feed-consistency engine of the     *)
(* YouTube-to-podcast converter: the segment planner (AudioSplitter), the  *)
(* transcript tracker (TranscriptManager) and the ingestion jobs of the    *)
(* web service (web.py) with the feed store (RSSManager).                  *)
(*                                                                         *)
(* The specifications of the module:                                       *)
(*   SpecSeg      the segment planner applied to bounded inputs            *)
(*   SpecCut      split_audio cutting the part files of a source           *)
(*   SpecTr       transcript triggers and their background workers         *)
(*   SpecTrLive   SpecTr with the scheduling of its threads                *)
(*   SpecPoll     SpecTr with the answer to each poll on record            *)
(*   SpecRestart  SpecTr in a process that can be restarted                *)
(*   Spec         URL and upload jobs running against the persisted feed   *)
(*   SpecLive     Spec with the scheduling of the job threads              *)
(*   SpecUploads  upload jobs only, published by hand                      *)
(*   SpecDisk     upload jobs while writes to the feed path can fail       *)
(*   SpecPublish  jobs publishing to the release, writes can fail          *)
(*   SpecPartial  jobs publishing to the release, uploads can fail         *)
(*   SpecDelete   URL jobs and requests to delete an episode               *)
(*   SpecRemove   SpecDelete with the response to each delete              *)
(*   SpecProbe    URL jobs where ffprobe and metadata can disagree         *)
(*   SpecReload   URL jobs on an earlier feed whose load can fail          *)
(*   SpecProgress the progress one URL job reports                         *)
(*   SpecDerive   the derivation of an episode applied to bounded inputs   *)
(*   SpecUrl      the URL processor applied to bounded inputs              *)
(***************************************************************************)
EXTENDS Integers, Sequences, FiniteSets, TLC

\* ------------------------------------------------------------------------
\* Bounds of the model
\* ------------------------------------------------------------------------

\* largest max_duration an AudioSplitter is constructed with (SpecSeg)
MaxSegmentSeconds == 6
\* largest total duration handed to the planner (SpecSeg)
MaxTotalSeconds == 20
\* number of calls of start_transcription_background (SpecTr)
MaxTriggers == 2
\* number of ingestion requests the clients send (Spec)
MaxJobs == 2
\* largest part index and part count of a derivation (SpecDerive)
MaxParts == 5
\* number of ingestion requests the clients send (SpecLive)
MaxLiveJobs == 1
\* the number of upload requests the clients send (SpecUploads)
MaxUploads == 3
\* the configured FEED_MAX_ITEMS (Spec)
MaxFeedCap == 2
\* number of URL requests the clients send (SpecDelete)
MaxRepeats == 2

VARIABLES
    \* --- AudioSplitter (SpecSeg) ---
    max_duration,     \* self.max_duration
    seg_called,       \* whether the planner has been called
    total_duration,   \* argument of the last call
    segments_info,    \* result of calculate_segments for that argument
    split_needed,     \* result of should_split for that argument
    \* --- TranscriptManager (SpecTr) ---
    statuses,         \* self._statuses: guid -> entry
    status_file,      \* transcripts/status.json as last written
    transcript_files, \* guids whose transcripts/<guid>.txt exists
    trig,             \* the calls of start_transcription_background
    worker,           \* the _worker thread each call started
    \* --- web service and feed store (Spec) ---
    feed_max_items,   \* settings.feed_max_items
    auto_publish,     \* settings.auto_publish
    faults,           \* what the machine the service runs on can get wrong
    requests_left,    \* requests the clients have yet to send
    io_errors,        \* whether a write to the feed path can fail
    job_id_counter,   \* web.job_id_counter
    jobs,             \* web.jobs: job id -> job record
    thr,              \* the background thread of each job and its locals
    rss_file,         \* the persisted feed document settings.rss_file
    temp,             \* podcast/temp: file name -> bytes of the saved upload
    \* --- the derivation of an episode from a file of a job (SpecDerive) ---
    drv,              \* the arguments and the episode of the last derivation
    \* --- AudioSplitter.split_audio and the part files (SpecCut) ---
    cut,              \* the locals of the call and the part files on disk
    \* --- _poll_until_complete under observation (SpecPoll) ---
    polled,           \* the status the last poll of each worker got
    \* --- YouTubeURLProcessor (SpecUrl) ---
    parsed,           \* the last call of parse_url or process_urls
    \* --- the progress a URL job reports (SpecProgress) ---
    shown,            \* jobs[job_id]['status'] and ['progress'] of one job
    \* --- DELETE /api/episodes/<guid> under observation (SpecRemove) ---
    deleted           \* the guid and the response of the last delete request

None == "None"

segVars == <<max_duration, seg_called, total_duration, segments_info, split_needed>>

trVars == <<statuses, status_file, transcript_files, trig, worker>>

cfgVars == <<feed_max_items, auto_publish, faults>>
jobVars == <<cfgVars, requests_left, io_errors, job_id_counter, jobs, thr, rss_file, temp>>

drvVars == <<drv>>

cutVars == <<cut>>

pollVars == <<polled>>

urlVars == <<parsed>>

shownVars == <<shown>>

deletedVars == <<deleted>>

vars == <<segVars, trVars, jobVars, drvVars, cutVars, pollVars, urlVars, shownVars, deletedVars>>

\* what the steps of one component leave alone
SegFrame == UNCHANGED <<trVars, jobVars, drvVars, cutVars, pollVars, urlVars, shownVars, deletedVars>>
PollFrame == UNCHANGED <<segVars, jobVars, drvVars, cutVars, urlVars, shownVars, deletedVars>>
TrFrame == PollFrame /\ UNCHANGED pollVars
JobFrame == UNCHANGED <<segVars, trVars, cfgVars, drvVars, cutVars, pollVars, urlVars, shownVars, deletedVars>>
DrvFrame == UNCHANGED <<segVars, trVars, jobVars, cutVars, pollVars, urlVars, shownVars, deletedVars>>
CutFrame == UNCHANGED <<segVars, trVars, jobVars, drvVars, pollVars, urlVars, shownVars, deletedVars>>
UrlFrame == UNCHANGED <<segVars, trVars, jobVars, drvVars, cutVars, pollVars, shownVars, deletedVars>>
ShownFrame == UNCHANGED <<segVars, trVars, jobVars, drvVars, cutVars, pollVars, urlVars, deletedVars>>

\* ------------------------------------------------------------------------
\* AudioSplitter: the segment planner
\* ------------------------------------------------------------------------

\* AudioSplitter.MAX_EPISODE_DURATION
MAX_EPISODE_DURATION == 3600

Min(a, b) == IF a < b THEN a ELSE b

\* should_split with the comparison off by one
should_split_geq(duration, max) == duration >= max

\* AudioSplitter.should_split
should_split(duration, max) == duration > max

\* the while loop of calculate_segments
RECURSIVE segment_loop(_, _, _, _)
segment_loop(segments, remaining, start_time, max) ==
    IF remaining > 0
    THEN LET segment_duration == Min(max, remaining)
         IN  segment_loop(Append(segments, <<start_time, segment_duration>>),
                          remaining - segment_duration,
                          start_time + segment_duration,
                          max)
    ELSE segments

\* calculate_segments whose loop stops before a short remainder
RECURSIVE segment_loop_drop(_, _, _, _)
segment_loop_drop(segments, remaining, start_time, max) ==
    IF remaining >= max
    THEN segment_loop_drop(Append(segments, <<start_time, max>>),
                           remaining - max, start_time + max, max)
    ELSE segments

calculate_segments_drop(total, max) ==
    IF total <= max THEN << <<0, total>> >>
    ELSE segment_loop_drop(<<>>, total, 0, max)

\* a planner that never splits
calculate_segments_whole(total, max) == << <<0, total>> >>

\* AudioSplitter.calculate_segments
calculate_segments(total, max) ==
    IF total <= max THEN << <<0, total>> >>
    ELSE segment_loop(<<>>, total, 0, max)

SegInit ==
    /\ max_duration \in 1..MaxSegmentSeconds
    /\ seg_called = FALSE
    /\ total_duration = 0
    /\ segments_info = <<>>
    /\ split_needed = FALSE

\* one call of should_split and calculate_segments on the same duration
PlanSegments ==
    \E total \in 0..MaxTotalSeconds :
        /\ seg_called' = TRUE
        /\ total_duration' = total
        /\ split_needed' = should_split(total, max_duration)
        /\ segments_info' = calculate_segments(total, max_duration)
        /\ UNCHANGED max_duration
        /\ SegFrame

SegNext == PlanSegments

\* ------------------------------------------------------------------------
\* TranscriptManager: the transcript tracker
\* ------------------------------------------------------------------------

Guids == {"g1", "g2"}
Calls == 1..MaxTriggers

\* no entry for the guid in self._statuses
NoEntry == [status |-> None, assembly_id |-> None, error |-> None]

\* TranscriptManager.get_status(guid).status
get_status(S, guid) ==
    IF S[guid] = NoEntry THEN "none" ELSE S[guid].status

\* a set_status that builds a new map holding the entry of its guid only
set_status_alone(S, guid, status, assembly_id, error) ==
    [g \in DOMAIN S |->
        IF g = guid
        THEN [status |-> status,
              assembly_id |-> IF assembly_id # None THEN assembly_id
                              ELSE S[g].assembly_id,
              error |-> IF error # None THEN error ELSE S[g].error]
        ELSE [status |-> None, assembly_id |-> None, error |-> None]]

\* the locked part of TranscriptManager.set_status
set_status(S, guid, status, assembly_id, error) ==
    LET entry == S[guid]
    IN  [S EXCEPT ![guid] =
            [status |-> status,
             assembly_id |-> IF assembly_id # None THEN assembly_id
                             ELSE entry.assembly_id,
             error |-> IF error # None THEN error ELSE entry.error]]

\* the guard that forgets the done state
trigger_refused_no_done(status) == status = "in_progress"

\* the guard that forgets the in_progress state
trigger_refused_no_in_progress(status) == status = "done"

\* start_transcription_background: if st.status in ("in_progress", "done")
trigger_refused(status) == status \in {"in_progress", "done"}

\* the id the transcription backend gives the job worker w submits
transcript_id(w) == "tid" \o ToString(w)

IdleCall == [pc |-> "idle", guid |-> None, st |-> None, started |-> FALSE]
NoWorker == [pc |-> "unborn", guid |-> None]

\* an except block of _worker that only logs the exception
worker_failed_silent(S, guid, error) == S

\* the except block of _worker: self.set_status(guid, "error", error=str(e))
worker_failed(S, guid, error) == set_status(S, guid, "error", None, error)

TrInit ==
    /\ polled = [t \in Calls |-> None]
    /\ statuses = [g \in Guids |-> NoEntry]
    /\ status_file = [g \in Guids |-> NoEntry]
    /\ transcript_files = {}
    /\ trig = [t \in Calls |-> IdleCall]
    /\ worker = [t \in Calls |-> NoWorker]

\* st = self.get_status(guid)
TrigGetStatus(t, guid) ==
    /\ trig[t].pc = "idle"
    /\ \A u \in Calls : u < t => trig[u].pc # "idle"
    /\ trig' = [trig EXCEPT ![t] = [pc |-> "guard", guid |-> guid,
                                    st |-> get_status(statuses, guid),
                                    started |-> FALSE]]
    /\ UNCHANGED <<statuses, status_file, transcript_files, worker>>
    /\ TrFrame

\* the guard, then the locked update of set_status(guid, "in_progress")
TrigGuard(t) ==
    /\ trig[t].pc = "guard"
    /\ IF trigger_refused(trig[t].st)
       THEN /\ trig' = [trig EXCEPT ![t].pc = "returned", ![t].started = FALSE]
            /\ UNCHANGED statuses
       ELSE /\ statuses' = set_status(statuses, trig[t].guid, "in_progress",
                                      None, None)
            /\ trig' = [trig EXCEPT ![t].pc = "save"]
    /\ UNCHANGED <<status_file, transcript_files, worker>>
    /\ TrFrame

\* self._save() at the end of set_status
TrigSave(t) ==
    /\ trig[t].pc = "save"
    /\ status_file' = statuses
    /\ trig' = [trig EXCEPT ![t].pc = "spawn"]
    /\ UNCHANGED <<statuses, transcript_files, worker>>
    /\ TrFrame

\* threading.Thread(target=_worker).start(); return True
TrigSpawn(t) ==
    /\ trig[t].pc = "spawn"
    /\ worker' = [worker EXCEPT ![t] = [pc |-> "start", guid |-> trig[t].guid]]
    /\ trig' = [trig EXCEPT ![t].pc = "returned", ![t].started = TRUE]
    /\ UNCHANGED <<statuses, status_file, transcript_files>>
    /\ TrFrame

\* _worker: the upload attempt and _create_transcript, then the locked
\* update of set_status(guid, "in_progress", assembly_id=transcript_id), or
\* of set_status(guid, "error", error=str(e)) when _create_transcript raises
WorkerCreate(w) ==
    /\ worker[w].pc = "start"
    /\ \E raised \in BOOLEAN :
        IF raised
        THEN /\ statuses' = worker_failed(statuses, worker[w].guid, "exception")
             /\ worker' = [worker EXCEPT ![w].pc = "save_end"]
        ELSE /\ statuses' = set_status(statuses, worker[w].guid, "in_progress",
                                       transcript_id(w), None)
             /\ worker' = [worker EXCEPT ![w].pc = "save_id"]
    /\ UNCHANGED <<status_file, transcript_files, trig>>
    /\ TrFrame

\* self._save() at the end of a set_status of the worker
WorkerSave(w) ==
    /\ worker[w].pc \in {"save_id", "save_end"}
    /\ status_file' = statuses
    /\ worker' = [worker EXCEPT
                     ![w].pc = IF worker[w].pc = "save_id" THEN "poll"
                               ELSE "finished"]
    /\ UNCHANGED <<statuses, transcript_files, trig>>
    /\ TrFrame

\* a worker that does not write the transcript text
write_transcript_skipped(files, guid) == files

\* transcript_path(guid).write_text(data or "")
write_transcript(files, guid) == files \cup {guid}

\* what the backend can answer to a poll: a status of the job, one the loop
\* does not know, or no answer (the request raises)
Responses == {"queued", "unknown", "completed", "error", "raised"}

\* the body of the while loop of _poll_until_complete: sleep and poll again,
\* or return "completed" or "error"
poll_decision(response) ==
    IF response = "queued" THEN "sleep"
    ELSE IF response = "completed" THEN "completed"
    ELSE IF response = "error" THEN "error"
    ELSE "sleep"

\* one request of _poll_until_complete and what the worker does when the
\* loop returns or the request raises; on "completed" the worker writes the
\* transcript text
PollOnce(w, response) ==
    /\ worker[w].pc = "poll"
    /\ IF response = "raised"
       THEN /\ statuses' = worker_failed(statuses, worker[w].guid, "exception")
            /\ worker' = [worker EXCEPT ![w].pc = "save_end"]
            /\ UNCHANGED transcript_files
       ELSE CASE poll_decision(response) = "sleep" ->
                    /\ UNCHANGED <<worker, statuses, transcript_files>>
              [] poll_decision(response) = "completed" ->
                    /\ transcript_files' = write_transcript(transcript_files,
                                                           worker[w].guid)
                    /\ worker' = [worker EXCEPT ![w].pc = "set_done"]
                    /\ UNCHANGED statuses
              [] poll_decision(response) = "error" ->
                    /\ statuses' = set_status(statuses, worker[w].guid, "error",
                                              transcript_id(w), "failed")
                    /\ worker' = [worker EXCEPT ![w].pc = "save_end"]
                    /\ UNCHANGED transcript_files
    /\ UNCHANGED <<status_file, trig>>

\* one request of _poll_until_complete
WorkerPoll(w) ==
    /\ \E response \in Responses : PollOnce(w, response)
    /\ TrFrame

\* one request of _poll_until_complete, the status it got kept for inspection
WorkerPollSeen(w) ==
    /\ \E response \in Responses :
         /\ PollOnce(w, response)
         /\ polled' = [polled EXCEPT ![w] = response]
    /\ PollFrame

\* the locked update of set_status(guid, "done", assembly_id=transcript_id)
WorkerSetDone(w) ==
    /\ worker[w].pc = "set_done"
    /\ statuses' = set_status(statuses, worker[w].guid, "done",
                              transcript_id(w), None)
    /\ worker' = [worker EXCEPT ![w].pc = "save_end"]
    /\ UNCHANGED <<status_file, transcript_files, trig>>
    /\ TrFrame

TrNext ==
    \/ \E t \in Calls, guid \in Guids : TrigGetStatus(t, guid)
    \/ \E t \in Calls : TrigGuard(t)
    \/ \E t \in Calls : TrigSave(t)
    \/ \E t \in Calls : TrigSpawn(t)
    \/ \E w \in Calls : WorkerCreate(w)
    \/ \E w \in Calls : WorkerSave(w)
    \/ \E w \in Calls : WorkerPoll(w)
    \/ \E w \in Calls : WorkerSetDone(w)

\* ------------------------------------------------------------------------
\* RSSManager: the feed store
\* ------------------------------------------------------------------------

\* a GUID that leaves the part index out
episode_guid_no_index(base, part_number) ==
    IF part_number # 0 THEN base \o "_part" ELSE base

\* a GUID that is the bare base id for the first part
episode_guid_first_bare(base, part_number) ==
    IF part_number > 1 THEN base \o "_part" \o ToString(part_number) ELSE base

\* the GUID of an episode: the base id, or base_partN for part N
episode_guid(base, part_number) ==
    IF part_number # 0 THEN base \o "_part" \o ToString(part_number)
    ELSE base

\* the title of an episode of total_parts parts
episode_title(title, part_number, total_parts) ==
    IF part_number # 0
    THEN title \o " (Part " \o ToString(part_number) \o "/"
               \o ToString(total_parts) \o ")"
    ELSE title

\* settings.rss_file does not exist
NoFile == [exists |-> FALSE, intact |-> TRUE, items |-> <<>>]

\* settings.rss_file holds a document that was cut off while being written:
\* ET.parse raises on it
PartialFile == [exists |-> TRUE, intact |-> FALSE, items |-> <<>>]

\* FeedGenerator.add_entry(): feedgen inserts a new entry at the front of
\* its entry list (order='prepend')
add_entry(fg, entry) == <<entry>> \o fg

\* RSSManager.add_episode
add_episode(fg, episode) == add_entry(fg, episode)

\* RSSManager.create_feed
create_feed == <<>>

\* the item loop of load_existing_feed: one add_entry per item, in
\* document order
RECURSIVE load_items(_, _)
load_items(fg, items) ==
    IF items = <<>> THEN fg
    ELSE load_items(add_entry(fg, Head(items)), Tail(items))

\* what load_existing_feed hands to its caller: a feed, or None
NotLoaded == [found |-> FALSE, raised |-> FALSE, fg |-> <<>>]

\* load_existing_feed whose parse error reaches the caller
load_existing_feed_raising(file) ==
    IF ~file.exists THEN NotLoaded
    ELSE IF ~file.intact THEN [NotLoaded EXCEPT !.raised = TRUE]
    ELSE [found |-> TRUE, raised |-> FALSE, fg |-> load_items(<<>>, file.items)]

\* RSSManager.load_existing_feed: None without a file, None from the except
\* block when the document does not parse, else the feed with its items
load_existing_feed(file) ==
    IF ~file.exists THEN NotLoaded
    ELSE IF ~file.intact THEN NotLoaded
    ELSE [found |-> TRUE, raised |-> FALSE, fg |-> load_items(<<>>, file.items)]

\* get_existing_guids that never finds a guid
get_existing_guids_none(file) == {}

\* RSSManager.get_existing_guids
get_existing_guids(file) ==
    IF ~file.exists \/ ~file.intact THEN {}
    ELSE {file.items[i].guid : i \in 1..Len(file.items)}

\* a save_feed that leaves no document at the feed path
save_feed_nothing(fg, max_items) ==
    [exists |-> FALSE, intact |-> TRUE, items |-> <<>>]

\* RSSManager.save_feed: fg.rss_file writes every entry, in the order of the
\* entry list; max_items only produces a warning
save_feed(fg, max_items) == [exists |-> TRUE, intact |-> TRUE, items |-> fg]

\* one pass of the ingestion loop for an item whose guid is ignored
merge_unguarded(state, episode) ==
    [fg |-> add_episode(state.fg, episode),
     existing_guids |-> state.existing_guids \cup {episode.guid},
     episodes_added |-> state.episodes_added + 1]

\* one pass of the ingestion loop: skip the episode if its guid is in
\* existing_guids, else add_episode, existing_guids.add, episodes_added += 1
merge(state, episode) ==
    IF episode.guid \in state.existing_guids THEN state
    ELSE [fg |-> add_episode(state.fg, episode),
          existing_guids |-> state.existing_guids \cup {episode.guid},
          episodes_added |-> state.episodes_added + 1]

\* the ingestion loop over the episodes of one request
RECURSIVE merge_all(_, _)
merge_all(state, episodes) ==
    IF episodes = <<>> THEN state
    ELSE merge_all(merge(state, Head(episodes)), Tail(episodes))

\* the number of entries of a feed that carry the guid
CountGuid(seq, guid) == Cardinality({i \in 1..Len(seq) : seq[i].guid = guid})

\* ------------------------------------------------------------------------
\* web.py: requests and ingestion jobs
\* ------------------------------------------------------------------------

\* the ids of the jobs created so far (the keys of the dict jobs)
JobIds == DOMAIN jobs

\* YouTubeURLProcessor.VALID_DOMAINS
VALID_DOMAINS == {"youtube.com", "www.youtube.com", "m.youtube.com", "youtu.be"}

\* the URLs requests carry: host and the video id the URL holds
Urls ==
    { [domain |-> "www.youtube.com", video_id |-> "NX7p0SAbk_M"],
      [domain |-> "vimeo.com", video_id |-> "NX7p0SAbk_M"] }

\* process_urls([url]) returns a parsed URL
valid_url(url) == url.domain \in VALID_DOMAINS /\ Len(url.video_id) = 11

\* what the downloader reports for a video: title and duration in seconds
metadata(video_id) ==
    IF video_id = "NX7p0SAbk_M"
    THEN [title |-> "Live", description |-> "A live set", duration |-> 7500]
    ELSE [title |-> "Song", description |-> "A song", duration |-> 1800]

\* the uploads requests carry: file name (stem, extension) and bytes
UploadNames == { [stem |-> "ep", ext |-> ".mp3"], [stem |-> "ep", ext |-> ".exe"] }
Contents == {"X", "Y"}

\* web.ALLOWED_EXTENSIONS
ALLOWED_EXTENSIONS == {".mp3", ".mp4", ".m4a"}

\* web.allowed_file
allowed_file(name) == name.ext \in ALLOWED_EXTENSIONS

\* hashlib.md5(bytes).hexdigest()[:11]
file_hash(content) == IF content = "X" THEN "02129bb8613" ELSE "57cec4137b6"

\* AudioSplitter.get_audio_duration of a file holding the bytes
audio_duration(content) == IF content = "X" THEN 1800 ELSE 7500

\* settings.audio_format (default)
audio_format == ".m4a"

NoUrl == [domain |-> None, video_id |-> None]
NoName == [stem |-> None, ext |-> None]

NoJob == [status |-> None, log |-> <<>>, duplicate |-> FALSE, progress |-> None,
          message |-> None]

NoThread ==
    [pc |-> "unborn", kind |-> None, url |-> NoUrl, name |-> NoName,
     base |-> None, title |-> None, description |-> None, items |-> <<>>,
     fg |-> <<>>,
     episodes_added |-> 0, saved |-> FALSE, save_failed |-> FALSE,
     split_failed |-> FALSE, tree |-> NoFile, uploaded |-> {}]

\* jobs[job_id]['status'] = status
set_job_status(job, status) ==
    [job EXCEPT !.status = status, !.log = Append(job.log, status)]

\* an except block of a job that only logs the exception
job_failed_silent(job) == job

\* the except block of a job: jobs[job_id]['status'] = 'error' and
\* jobs[job_id]['message'] = the text of the exception
job_failed(job) ==
    [set_job_status(job, "error") EXCEPT !.message = "Error: exception"]

\* the locals a job thread drops when it returns
Returned(t) ==
    [t EXCEPT !.pc = "done", !.url = NoUrl, !.name = NoName, !.title = None,
              !.description = None,
              !.items = <<>>, !.fg = <<>>, !.tree = NoFile, !.uploaded = {}]

JobInit ==
    /\ feed_max_items = MaxFeedCap
    /\ auto_publish \in {"manual", "github"}
    /\ faults = {}
    /\ requests_left = MaxJobs
    /\ io_errors = FALSE
    /\ job_id_counter = 0
    /\ jobs = <<>>
    /\ thr = <<>>
    /\ rss_file = NoFile
    /\ temp = [n \in UploadNames |-> None]

\* the job record both handlers create under job_lock
new_job == [status |-> "pending", log |-> <<"pending">>, duplicate |-> FALSE,
            progress |-> None, message |-> "Starting..."]

\* a job id that is the same for every request
next_job_id_fixed(counter) == 1

\* with job_lock: job_id_counter += 1; job_id = job_id_counter
next_job_id(counter) == counter + 1

\* POST /api/process
ProcessUrl(url) ==
    /\ requests_left > 0
    /\ requests_left' = requests_left - 1
    /\ job_id_counter' = next_job_id(job_id_counter)
    /\ jobs' = (next_job_id(job_id_counter) :> new_job) @@ jobs
    /\ thr' = (next_job_id(job_id_counter) :>
                  [NoThread EXCEPT !.pc = "start", !.kind = "url", !.url = url])
                 @@ thr
    /\ UNCHANGED <<io_errors, rss_file, temp>>
    /\ JobFrame

\* POST /api/upload with an allowed file name
UploadFile(name, content) ==
    /\ requests_left > 0
    /\ requests_left' = requests_left - 1
    /\ allowed_file(name)
    /\ temp' = [temp EXCEPT ![name] = content]
    /\ job_id_counter' = next_job_id(job_id_counter)
    /\ jobs' = (next_job_id(job_id_counter) :> new_job) @@ jobs
    /\ thr' = (next_job_id(job_id_counter) :>
                  [NoThread EXCEPT !.pc = "start", !.kind = "upload", !.name = name])
                 @@ thr
    /\ UNCHANGED <<io_errors, rss_file>>
    /\ JobFrame

\* the file of a single episode
single_item(base, ext) == << [part |-> 0, total |-> 1, file |-> base \o ext] >>

\* AudioSplitter.split_audio on a file of the duration ffprobe measures: no
\* segment when that is within the limit, else one AudioSegment per planned
\* segment
split_audio(base, ext, duration) ==
    LET plan == calculate_segments(duration, MAX_EPISODE_DURATION)
    IN  IF ~should_split(duration, MAX_EPISODE_DURATION) THEN <<>>
        ELSE [i \in 1..Len(plan) |->
                [part |-> i, total |-> Len(plan),
                 file |-> base \o "_part" \o ToString(i) \o ext]]

\* what ffprobe can measure on the downloaded file of a video whose metadata
\* gives the duration: the same number of seconds, or, where the container
\* and the metadata disagree, a number within the limit
probed_durations(duration) ==
    {duration} \cup (IF "probe_differs" \in faults
                      THEN {MAX_EPISODE_DURATION} ELSE {})

\* the part marker of a title or description
part_marker(part_number, total_parts) ==
    " (Part " \o ToString(part_number) \o "/" \o ToString(total_parts) \o ")"

\* the description an upload without a description field gets
upload_description(name) == "Uploaded audio: " \o name.stem \o name.ext

\* a description that carries the part marker on both paths
episode_description_marked(kind, description, part_number, total_parts) ==
    IF part_number # 0
    THEN description \o part_marker(part_number, total_parts)
    ELSE description

\* the description of an episode: the upload job appends the part marker,
\* the URL job passes the description of the video on as it is
episode_description(kind, description, part_number, total_parts) ==
    IF kind = "upload" /\ part_number # 0
    THEN description \o part_marker(part_number, total_parts)
    ELSE description

\* the episode a job derives for one item of audio_files_to_process
episode_of(kind, base, title, description, item) ==
    [guid |-> episode_guid(base, item.part),
     title |-> episode_title(title, item.part, item.total),
     description |-> episode_description(kind, description, item.part, item.total),
     url |-> [host |-> "media", file |-> item.file]]

\* process_video_job up to the feed update: validate the URL, download,
\* split when the video is longer than an hour
VideoStart(j) ==
    /\ thr[j].pc = "start" /\ thr[j].kind = "url"
    /\ LET processing == [set_job_status(jobs[j], "processing")
                              EXCEPT !.message = "Processing..."]
           url == thr[j].url
           meta == metadata(url.video_id)
       IN  IF ~valid_url(url)
           THEN /\ jobs' = [jobs EXCEPT ![j] =
                               [set_job_status(processing, "error")
                                   EXCEPT !.progress = "starting",
                                          !.message = "Invalid YouTube URL"]]
                /\ thr' = [thr EXCEPT ![j] = Returned(thr[j])]
           ELSE \E downloaded \in BOOLEAN, split_ok \in BOOLEAN,
                   probed \in probed_durations(meta.duration) :
                  IF ~downloaded
                  THEN /\ split_ok /\ probed = meta.duration
                       /\ jobs' = [jobs EXCEPT ![j] =
                                      [job_failed(processing)
                                          EXCEPT !.progress = "downloading"]]
                       /\ thr' = [thr EXCEPT ![j] =
                                     Returned([thr[j] EXCEPT !.base = url.video_id])]
                  ELSE /\ (~should_split(meta.duration, MAX_EPISODE_DURATION))
                            => (split_ok /\ probed = meta.duration)
                       /\ ~split_ok => probed = meta.duration
                       /\ jobs' = [jobs EXCEPT ![j] =
                                      [processing EXCEPT !.progress = "feed"]]
                       /\ thr' = [thr EXCEPT ![j] =
                             [thr[j] EXCEPT
                                !.pc = "load",
                                !.base = url.video_id,
                                !.title = meta.title,
                                !.description = meta.description,
                                !.split_failed =
                                   should_split(meta.duration, MAX_EPISODE_DURATION)
                                      /\ ~split_ok,
                                !.items =
                                   IF should_split(meta.duration, MAX_EPISODE_DURATION)
                                      /\ split_ok
                                   THEN split_audio(url.video_id, audio_format,
                                                    probed)
                                   ELSE single_item(url.video_id, audio_format)]]
    /\ UNCHANGED <<requests_left, io_errors, job_id_counter, rss_file, temp>>
    /\ JobFrame

\* process_upload_job up to the content hash: the file check, 'processing',
\* the md5 of the bytes the temp file holds
UploadStart(j) ==
    /\ thr[j].pc = "start" /\ thr[j].kind = "upload"
    /\ IF temp[thr[j].name] = None
       THEN /\ jobs' = [jobs EXCEPT ![j] =
                           [job_failed(jobs[j]) EXCEPT !.progress = "error"]]
            /\ thr' = [thr EXCEPT ![j] = Returned(thr[j])]
       ELSE /\ jobs' = [jobs EXCEPT ![j] =
                           [set_job_status(jobs[j], "processing")
                               EXCEPT !.progress = "processing",
                                      !.message = "Processing..."]]
            /\ thr' = [thr EXCEPT ![j] =
                          [thr[j] EXCEPT !.pc = "move",
                                         !.base = file_hash(temp[thr[j].name])]]
    /\ UNCHANGED <<requests_left, io_errors, job_id_counter, rss_file, temp>>
    /\ JobFrame

\* process_upload_job from the conversion or rename of the temp file to the
\* feed update: the file leaves podcast/temp, its duration is measured, it
\* is split when longer than an hour
UploadMove(j) ==
    /\ thr[j].pc = "move"
    /\ LET name == thr[j].name
           ext == IF name.ext = ".mp4" THEN audio_format ELSE name.ext
       IN  IF temp[name] = None
           THEN /\ jobs' = [jobs EXCEPT ![j] =
                               [job_failed(jobs[j]) EXCEPT !.progress = "error"]]
                /\ thr' = [thr EXCEPT ![j] = Returned(thr[j])]
                /\ UNCHANGED temp
           ELSE \E split_ok \in BOOLEAN :
                /\ (~should_split(audio_duration(temp[name]), MAX_EPISODE_DURATION))
                      => split_ok
                /\ temp' = [temp EXCEPT ![name] = None]
                /\ jobs' = [jobs EXCEPT ![j].progress = "feed"]
                /\ thr' = [thr EXCEPT ![j] =
                      [thr[j] EXCEPT
                         !.pc = "load",
                         !.title = name.stem,
                         !.description = upload_description(name),
                         !.split_failed =
                            should_split(audio_duration(temp[name]),
                                         MAX_EPISODE_DURATION) /\ ~split_ok,
                         !.items =
                            IF should_split(audio_duration(temp[name]),
                                            MAX_EPISODE_DURATION) /\ split_ok
                            THEN split_audio(thr[j].base, ext,
                                             audio_duration(temp[name]))
                            ELSE single_item(thr[j].base, ext)]]
    /\ UNCHANGED <<requests_left, io_errors, job_id_counter, rss_file>>
    /\ JobFrame

\* str.startswith
starts_with(text, prefix) ==
    Len(text) >= Len(prefix) /\ SubSeq(text, 1, Len(prefix)) = prefix

\* the test "this is one of our episodes" of the release-URL rewrite
own_episode(kind, base, guid) ==
    IF kind = "url" THEN starts_with(guid, base)
    ELSE guid = base \/ starts_with(guid, base \o "_part")

\* the release-URL rewrite of the parsed document
rewrite_urls(items, kind, base) ==
    [i \in 1..Len(items) |->
        IF own_episode(kind, base, items[i].guid)
        THEN [items[i] EXCEPT !.url.host = "github"]
        ELSE items[i]]

\* the end of a job that succeeded: status 'completed'; only the upload job
\* also reports the progress stage 'completed'
job_completed(job, kind) ==
    [set_job_status(job, "completed")
        EXCEPT !.progress = IF kind = "upload" THEN "completed" ELSE @]

\* what a call of load_existing_feed can hand back: its result on the
\* document, or, when reading the file or rebuilding the feed raises inside
\* its try block, None from its except block
load_outcomes(file) ==
    {load_existing_feed(file)}
        \cup (IF "load_raises" \in faults /\ file.exists THEN {NotLoaded} ELSE {})

\* fg = rss_manager.load_existing_feed(...), and create_feed() when it is
\* None; an exception of the call would end the job in its except block
JobLoad(j) ==
    /\ thr[j].pc = "load"
    /\ \E loaded \in load_outcomes(rss_file) :
           IF loaded.raised
           THEN /\ thr' = [thr EXCEPT ![j] = Returned(thr[j])]
                /\ jobs' = [jobs EXCEPT ![j] =
                               [job_failed(jobs[j]) EXCEPT !.progress =
                                   IF thr[j].kind = "upload" THEN "error" ELSE @]]
           ELSE /\ thr' = [thr EXCEPT ![j].pc = "merge",
                                      ![j].fg = IF loaded.found THEN loaded.fg
                                                ELSE create_feed]
                /\ UNCHANGED jobs
    /\ UNCHANGED <<requests_left, io_errors, job_id_counter, rss_file, temp>>
    /\ JobFrame

\* existing_guids = rss_manager.get_existing_guids(...), the loop over
\* audio_files_to_process, and the 'Already in feed' return
JobMerge(j) ==
    /\ thr[j].pc = "merge"
    /\ LET t == thr[j]
           episodes == [i \in 1..Len(t.items) |->
                           episode_of(t.kind, t.base, t.title, t.description, t.items[i])]
           merged == merge_all([fg |-> t.fg,
                                existing_guids |-> get_existing_guids(rss_file),
                                episodes_added |-> 0],
                               episodes)
       IN  IF merged.episodes_added = 0
           THEN /\ jobs' = [jobs EXCEPT ![j] =
                               [set_job_status(jobs[j], "completed")
                                   EXCEPT !.duplicate = TRUE,
                                          !.message = "Already in feed"]]
                /\ thr' = [thr EXCEPT ![j] = Returned(t)]
           ELSE /\ thr' = [thr EXCEPT ![j].pc = "save",
                                      ![j].fg = merged.fg,
                                      ![j].episodes_added = merged.episodes_added]
                /\ UNCHANGED jobs
    /\ UNCHANGED <<requests_left, io_errors, job_id_counter, rss_file, temp>>
    /\ JobFrame

\* the document at the feed path after fg.rss_file raised an I/O error: the
\* write goes straight to the feed path, so the document is the old one when
\* the error came before the file was opened, and a cut-off one after that
write_failed(old, partial) == IF partial THEN PartialFile ELSE old

\* rss_manager.save_feed(fg, settings.rss_file, max_items=...), and the end
\* of the job when auto_publish is not 'github'; an I/O error in save_feed is
\* re-raised and ends the job in its except block
JobSave(j) ==
    /\ thr[j].pc = "save"
    /\ \E outcome \in {"written", "failed_early", "failed_late"} :
         /\ outcome # "written" => io_errors
         /\ IF outcome = "written"
            THEN /\ rss_file' = save_feed(thr[j].fg, feed_max_items)
                 /\ IF auto_publish = "github"
                    THEN /\ thr' = [thr EXCEPT ![j].pc = "publish", ![j].saved = TRUE]
                         /\ jobs' = [jobs EXCEPT ![j].progress =
                                        IF thr[j].kind = "url" THEN "publishing"
                                        ELSE "uploading"]
                    ELSE /\ thr' = [thr EXCEPT ![j] =
                                       Returned([thr[j] EXCEPT !.saved = TRUE])]
                         /\ jobs' = [jobs EXCEPT ![j] =
                                        job_completed(jobs[j], thr[j].kind)]
            ELSE /\ rss_file' = write_failed(rss_file, outcome = "failed_late")
                 /\ thr' = [thr EXCEPT ![j] =
                               Returned([thr[j] EXCEPT !.save_failed = TRUE])]
                 /\ jobs' = [jobs EXCEPT ![j] =
                                [job_failed(jobs[j]) EXCEPT !.progress =
                                    IF thr[j].kind = "upload" THEN "error" ELSE @]]
    /\ UNCHANGED <<requests_left, io_errors, job_id_counter, temp>>
    /\ JobFrame

\* the files of audio_files_to_process
item_files(items) == {items[i].file : i \in 1..Len(items)}

\* the sets of files for which upload_to_release can return True when the
\* uploads of a job do not all fail: all of them, or, where single uploads
\* can fail, any of them
upload_results(items) ==
    IF "upload_fails" \in faults THEN SUBSET item_files(items) \ {{}}
    ELSE {item_files(items)}

\* the uploads to the release; when one succeeded, ET.parse(rss_file);
\* otherwise (and when the publisher raises) the end of the job
JobPublish(j) ==
    /\ thr[j].pc = "publish"
    /\ \E outcome \in {"uploaded", "none", "raised"},
          files \in upload_results(thr[j].items) :
        IF outcome = "uploaded" /\ rss_file.exists /\ rss_file.intact
        THEN /\ thr' = [thr EXCEPT ![j].pc = "rewrite", ![j].tree = rss_file,
                                   ![j].uploaded = files]
             /\ jobs' = [jobs EXCEPT ![j].progress = "updating_rss"]
        ELSE /\ thr' = [thr EXCEPT ![j] = Returned(thr[j])]
             /\ jobs' = [jobs EXCEPT ![j] =
                            job_completed([jobs[j] EXCEPT !.message = "Publish failed"],
                                          thr[j].kind)]
    /\ UNCHANGED <<requests_left, io_errors, job_id_counter, rss_file, temp>>
    /\ JobFrame

\* the rewrite of the enclosure URLs, tree.write(rss_file), publisher.publish
\* and the end of the job
JobRewrite(j) ==
    /\ thr[j].pc = "rewrite"
    /\ rss_file' = [exists |-> TRUE, intact |-> TRUE,
                    items |-> rewrite_urls(thr[j].tree.items, thr[j].kind,
                                           thr[j].base)]
    /\ thr' = [thr EXCEPT ![j] = Returned(thr[j])]
    /\ jobs' = [jobs EXCEPT ![j] =
                   job_completed([jobs[j] EXCEPT !.progress = "publishing"],
                                 thr[j].kind)]
    /\ UNCHANGED <<requests_left, io_errors, job_id_counter, temp>>
    /\ JobFrame

\* a removal that takes the first item of the document, whatever its guid
remove_item_head(items, guid) == Tail(items)

\* channel.remove(item) for the first item of the document with the guid
remove_item(items, guid) ==
    LET first == CHOOSE i \in 1..Len(items) :
                    /\ items[i].guid = guid
                    /\ \A k \in 1..(i - 1) : items[k].guid # guid
    IN  SubSeq(items, 1, first - 1) \o SubSeq(items, first + 1, Len(items))

\* DELETE /api/episodes/<guid>: parse the feed, remove the first item with
\* the guid, write the document back; 404 without a feed file or without such
\* an item, 500 when the document does not parse
delete_found(guid) ==
    /\ rss_file.exists /\ rss_file.intact
    /\ \E i \in 1..Len(rss_file.items) : rss_file.items[i].guid = guid
    /\ rss_file' = [rss_file EXCEPT !.items = remove_item(rss_file.items, guid)]
    /\ UNCHANGED <<requests_left, io_errors, job_id_counter, jobs, thr, temp>>

\* a DELETE request that finds the episode
delete_episode(guid) == delete_found(guid) /\ JobFrame

\* no delete request has been answered
NotDeleted == [guid |-> None, code |-> 0]

DeletedIdle == deleted = NotDeleted

\* DELETE /api/episodes/<guid> with its response on record: 200 when the
\* episode was removed, 404 without a feed file or without such an item, 500
\* when the document does not parse
DeleteRequest(guid) ==
    /\ IF /\ rss_file.exists /\ rss_file.intact
          /\ \E i \in 1..Len(rss_file.items) : rss_file.items[i].guid = guid
       THEN /\ delete_found(guid)
            /\ deleted' = [guid |-> guid, code |-> 200]
       ELSE /\ deleted' = [guid |-> guid,
                           code |-> IF rss_file.exists /\ ~rss_file.intact
                                    THEN 500 ELSE 404]
            /\ UNCHANGED <<requests_left, io_errors, job_id_counter, jobs, thr,
                           rss_file, temp>>
    /\ UNCHANGED <<segVars, trVars, cfgVars, drvVars, cutVars, pollVars, urlVars,
                   shownVars>>

JobNext ==
    \/ \E url \in Urls : ProcessUrl(url)
    \/ \E name \in UploadNames, content \in Contents : UploadFile(name, content)
    \/ \E j \in JobIds : VideoStart(j)
    \/ \E j \in JobIds : UploadStart(j)
    \/ \E j \in JobIds : UploadMove(j)
    \/ \E j \in JobIds : JobLoad(j)
    \/ \E j \in JobIds : JobMerge(j)
    \/ \E j \in JobIds : JobSave(j)
    \/ \E j \in JobIds : JobPublish(j)
    \/ \E j \in JobIds : JobRewrite(j)

\* ------------------------------------------------------------------------
\* The derivation of an episode, applied to bounded inputs
\* ------------------------------------------------------------------------

\* the file a job hands to the ingestion loop: a dict with part None (here
\* 0) for an unsplit file, an AudioSegment for a part (a split gives two
\* parts or more)
derive_items(base, max_parts) ==
    {single_item(base, audio_format)[1]}
        \cup {[part |-> k, total |-> n,
                file |-> base \o "_part" \o ToString(k) \o audio_format] :
                  k \in 1..max_parts, n \in 2..max_parts}

DeriveBases == {"NX7p0SAbk_M", "02129bb8613"}
DeriveTitles == {"Live", "ep"}

NoDerivation ==
    [called |-> FALSE, kind |-> None, base |-> None, title |-> None,
     description |-> None, part |-> 0, total |-> 0,
     episode |-> [guid |-> None, title |-> None, description |-> None,
                  url |-> [host |-> None, file |-> None]]]

DrvIdle == drv = NoDerivation

\* one pass of the ingestion loop up to EpisodeData(...)
DeriveEpisode ==
    \E kind \in {"url", "upload"}, base \in DeriveBases, title \in DeriveTitles :
      \E item \in derive_items(base, MaxParts) :
        /\ item.part <= item.total
        /\ drv' = [called |-> TRUE, kind |-> kind, base |-> base, title |-> title,
                   description |-> "About " \o title,
                   part |-> item.part, total |-> item.total,
                   episode |-> episode_of(kind, base, title, "About " \o title, item)]
        /\ DrvFrame

DrvNext == DeriveEpisode

\* ------------------------------------------------------------------------
\* AudioSplitter.split_audio: cutting the part files
\* ------------------------------------------------------------------------

NoCut == [pc |-> "idle", plan |-> <<>>, i |-> 0, segments |-> <<>>, disk |-> {}]

CutIdle == cut = NoCut

\* AudioSegment(file_path=part_file, part_number=i, total_parts=num_parts,
\* start_time=start_time, duration=duration)
AudioSegment(i, num_parts, info) ==
    [part_number |-> i, total_parts |-> num_parts,
     start_time |-> info[1], duration |-> info[2]]

\* the part file of part i on disk, whole or cut off
part_file(i, whole) == [part |-> i, whole |-> whole]

\* the except block of the loop: unlink the file of every segment in the
\* list of segments cut so far
unlink_segments(disk, segments) ==
    {f \in disk : \A k \in 1..Len(segments) : segments[k].part_number # f.part}

\* split_audio up to the loop: the duration is measured (ffprobe can fail),
\* a file within the limit gives [], a longer one is planned
SplitAudioStart ==
    /\ cut.pc = "idle"
    /\ \E total \in 0..MaxTotalSeconds, probed \in BOOLEAN :
         cut' = IF ~probed THEN [cut EXCEPT !.pc = "raised"]
                ELSE IF ~should_split(total, max_duration)
                THEN [cut EXCEPT !.pc = "returned"]
                ELSE [cut EXCEPT !.pc = "loop", !.i = 1,
                         !.plan = calculate_segments(total, max_duration)]
    /\ CutFrame

\* one pass of the loop: ffmpeg cuts part i; when it exits with an error it
\* may have left nothing or a cut-off file at the path of part i, the files
\* of the segments cut before are removed and the call raises
SplitAudioCut ==
    /\ cut.pc = "loop"
    /\ \E outcome \in {"cut", "failed_empty", "failed_partial"} :
         cut' =
            IF outcome = "cut"
            THEN [cut EXCEPT
                    !.disk = {f \in @ : f.part # cut.i} \cup {part_file(cut.i, TRUE)},
                    !.segments = Append(@, AudioSegment(cut.i, Len(cut.plan),
                                                        cut.plan[cut.i])),
                    !.i = @ + 1,
                    !.pc = IF cut.i = Len(cut.plan) THEN "returned" ELSE "loop"]
            ELSE [cut EXCEPT
                    !.disk = unlink_segments(
                                IF outcome = "failed_partial"
                                THEN {f \in @ : f.part # cut.i}
                                        \cup {part_file(cut.i, FALSE)}
                                ELSE @,
                                cut.segments),
                    !.pc = "raised"]
    /\ CutFrame

CutNext == PlanSegments \/ SplitAudioStart \/ SplitAudioCut

\* ------------------------------------------------------------------------
\* YouTubeURLProcessor: parsing the URLs of requests
\* ------------------------------------------------------------------------

\* the number of URLs handed to one call of process_urls (SpecUrl)
MaxUrls == 2

\* the characters VIDEO_ID_PATTERN admits: [a-zA-Z0-9_-]
ID_CHARS == "abcdefghijklmnopqrstuvwxyzABCDEFGHIJKLMNOPQRSTUVWXYZ0123456789_-"
UPPER_CHARS == "ABCDEFGHIJKLMNOPQRSTUVWXYZ"

\* the position of the first occurrence of sep in text, 0 when there is none
str_find(text, sep) ==
    LET hits == {i \in 1..(Len(text) - Len(sep) + 1) :
                    SubSeq(text, i, i + Len(sep) - 1) = sep}
    IN  IF hits = {} THEN 0 ELSE CHOOSE i \in hits : \A k \in hits : i <= k

\* the position of the last occurrence of sep in text, 0 when there is none
str_rfind(text, sep) ==
    LET hits == {i \in 1..(Len(text) - Len(sep) + 1) :
                    SubSeq(text, i, i + Len(sep) - 1) = sep}
    IN  IF hits = {} THEN 0 ELSE CHOOSE i \in hits : \A k \in hits : i >= k

\* str.lower
RECURSIVE str_lower(_)
str_lower(text) ==
    IF Len(text) = 0 THEN ""
    ELSE LET c == SubSeq(text, 1, 1)
             u == str_find(UPPER_CHARS, c)
         IN  (IF u = 0 THEN c ELSE SubSeq(ID_CHARS, u, u))
                 \o str_lower(SubSeq(text, 2, Len(text)))

\* text.lstrip('/')
RECURSIVE lstrip_slash(_)
lstrip_slash(text) ==
    IF Len(text) > 0 /\ SubSeq(text, 1, 1) = "/"
    THEN lstrip_slash(SubSeq(text, 2, Len(text)))
    ELSE text

\* text.split(sep)[0]
split_first(text, sep) ==
    IF str_find(text, sep) = 0 THEN text
    ELSE SubSeq(text, 1, str_find(text, sep) - 1)

\* text.split(sep)[-1]
split_last(text, sep) ==
    IF str_rfind(text, sep) = 0 THEN text
    ELSE SubSeq(text, str_rfind(text, sep) + Len(sep), Len(text))

\* YouTubeURLProcessor.is_valid_video_id: VIDEO_ID_PATTERN.match
is_valid_video_id(video_id) ==
    /\ Len(video_id) = 11
    /\ \A i \in 1..11 : str_find(ID_CHARS, SubSeq(video_id, i, i)) # 0

\* what extract_video_id hands back: the id, or the exception it raised
Extracted(video_id) == [raised |-> None, video_id |-> video_id]
Raised(error) == [raised |-> error, video_id |-> None]

\* extract_video_id without the /live/ and /shorts/ branches
extract_video_id_old_shapes(url) ==
    LET domain == str_lower(url.netloc)
        video_id ==
            IF domain = "youtu.be" THEN split_first(lstrip_slash(url.path), "/")
            ELSE IF starts_with(url.path, "/watch") THEN url.v
            ELSE IF starts_with(url.path, "/embed/") THEN split_last(url.path, "/embed/")
            ELSE IF starts_with(url.path, "/v/") THEN split_last(url.path, "/v/")
            ELSE None
        cleaned == split_first(split_first(video_id, "&"), "?")
    IN  IF domain \notin VALID_DOMAINS THEN Raised("InvalidYouTubeURLError")
        ELSE IF video_id = None \/ video_id = "" THEN Raised("InvalidYouTubeURLError")
        ELSE IF ~is_valid_video_id(cleaned) THEN Raised("InvalidVideoIDError")
        ELSE Extracted(cleaned)

\* YouTubeURLProcessor.extract_video_id on the URL as urlparse splits it
\* (netloc, path) and parse_qs reads its query (v, list; None when absent)
extract_video_id(url) ==
    LET domain == str_lower(url.netloc)
        video_id ==
            IF domain = "youtu.be" THEN split_first(lstrip_slash(url.path), "/")
            ELSE IF starts_with(url.path, "/watch") THEN url.v
            ELSE IF starts_with(url.path, "/embed/") THEN split_last(url.path, "/embed/")
            ELSE IF starts_with(url.path, "/v/") THEN split_last(url.path, "/v/")
            ELSE IF starts_with(url.path, "/live/") THEN split_last(url.path, "/live/")
            ELSE IF starts_with(url.path, "/shorts/")
                 THEN split_last(url.path, "/shorts/")
            ELSE None
        cleaned == split_first(split_first(video_id, "&"), "?")
    IN  IF domain \notin VALID_DOMAINS THEN Raised("InvalidYouTubeURLError")
        ELSE IF video_id = None \/ video_id = "" THEN Raised("InvalidYouTubeURLError")
        ELSE IF ~is_valid_video_id(cleaned) THEN Raised("InvalidVideoIDError")
        ELSE Extracted(cleaned)

\* YouTubeURLProcessor.parse_url: the YouTubeURL of a URL, or the exception of
\* extract_video_id
parse_url(url) ==
    LET extracted == extract_video_id(url)
    IN  IF extracted.raised # None
        THEN [raised |-> extracted.raised, original_url |-> url, video_id |-> None,
              is_playlist |-> FALSE, playlist_id |-> None]
        ELSE [raised |-> None, original_url |-> url,
              video_id |-> extracted.video_id,
              is_playlist |-> url.list # None, playlist_id |-> url.list]

\* YouTubeURL.normalized_url
normalized_url(youtube_url) ==
    "https://www.youtube.com/watch?v=" \o youtube_url.video_id

\* YouTubeURLProcessor.process_urls: the parsed URLs, in the order of the
\* list; a URL whose parse raised is skipped
RECURSIVE process_urls(_)
process_urls(urls) ==
    IF urls = <<>> THEN <<>>
    ELSE LET one == parse_url(Head(urls))
         IN  (IF one.raised # None THEN <<>> ELSE <<one>>)
                 \o process_urls(Tail(urls))

\* the ids URLs carry: two well-formed ones, and ones that are too short, too
\* long, or hold a character outside the pattern
UrlIds == {"NX7p0SAbk_M", "abc123XYZ-_", "short", "toolongid12345", "dQw4w9WgXc!"}

\* the path prefixes of the URL shapes (the bare "/" is that of youtu.be)
UrlPrefixes == {"/", "/live/", "/shorts/", "/embed/", "/v/"}

UrlNetlocs ==
    {"youtube.com", "www.youtube.com", "m.youtube.com", "youtu.be",
     "WWW.YouTube.com", "music.youtube.com", "vimeo.com"}

UrlPaths ==
    {prefix \o id : prefix \in UrlPrefixes, id \in UrlIds}
        \cup {"/watch", "/playlist", "/", "/embed/NX7p0SAbk_M/"}

\* the URLs handed to parse_url
UrlInputs ==
    [netloc : UrlNetlocs, path : UrlPaths, v : UrlIds \cup {None},
     list : {None, "PL1"}]

\* the URLs the lists handed to process_urls are made of
UrlSamples ==
    { [netloc |-> "www.youtube.com", path |-> "/watch", v |-> "abc123XYZ-_",
       list |-> "PL1"],
      [netloc |-> "youtu.be", path |-> "/NX7p0SAbk_M", v |-> None, list |-> None],
      [netloc |-> "m.youtube.com", path |-> "/live/NX7p0SAbk_M", v |-> None,
       list |-> None],
      [netloc |-> "vimeo.com", path |-> "/watch", v |-> "NX7p0SAbk_M",
       list |-> None],
      [netloc |-> "www.youtube.com", path |-> "/shorts/short", v |-> None,
       list |-> None] }

RECURSIVE UrlLists(_)
UrlLists(n) ==
    IF n = 0 THEN {<<>>}
    ELSE UrlLists(n - 1)
            \cup {Append(urls, url) : urls \in UrlLists(n - 1), url \in UrlSamples}

NotParsed == [called |-> None, urls |-> <<>>, results |-> <<>>]

UrlIdle == parsed = NotParsed

\* a call of parse_url
ParseUrl ==
    \E url \in UrlInputs :
        /\ parsed = NotParsed
        /\ parsed' = [called |-> "parse_url", urls |-> <<url>>,
                      results |-> <<parse_url(url)>>]
        /\ UrlFrame

\* a call of process_urls
ProcessUrls ==
    \E urls \in UrlLists(MaxUrls) :
        /\ parsed = NotParsed
        /\ parsed' = [called |-> "process_urls", urls |-> urls,
                      results |-> process_urls(urls)]
        /\ UrlFrame

UrlNext == ParseUrl \/ ProcessUrls


\* ------------------------------------------------------------------------
\* process_video_job: the progress a job reports
\* ------------------------------------------------------------------------

\* the number of progress reports yt-dlp makes for one download (SpecProgress)
MaxReports == 20

\* the percentages of those reports
ReportedPercents == {(k * 100) \div MaxReports : k \in 0..MaxReports}

\* a job as process_url creates it: a video longer than an hour or not, with
\* AUTO_PUBLISH=github or not
PendingJob(long, publish) ==
    [pc |-> "pending", status |-> "pending", stage |-> None, percent |-> 0,
     long |-> long, publish |-> publish]

ShownIdle == shown = PendingJob(FALSE, FALSE)

ShownInit == shown \in {PendingJob(long, publish) : long, publish \in BOOLEAN}

\* jobs[job_id]['progress'] = {'status': stage, 'percent': percent}
set_progress(job, stage, percent) ==
    [job EXCEPT !.stage = stage, !.percent = percent]

\* status 'processing', progress 'starting' at 0 percent
ShowStarting ==
    /\ shown.pc = "pending"
    /\ shown' = [set_progress(shown, "starting", 0)
                    EXCEPT !.status = "processing", !.pc = "download"]
    /\ ShownFrame

\* _progress_hook on a 'downloading' event of yt-dlp: progress_callback
\* stores the dict with the percentage of the download, which does not go
\* back during one download
ShowDownloading ==
    /\ shown.pc = "download"
    /\ \E percent \in ReportedPercents :
         /\ shown.stage = "downloading" => percent >= shown.percent
         /\ shown' = set_progress(shown, "downloading", percent)
    /\ ShownFrame

\* _progress_hook on the 'finished' event: 'converting' at 100 percent; the
\* download returns
ShowConverting ==
    /\ shown.pc = "download"
    /\ shown' = [set_progress(shown, "converting", 100) EXCEPT !.pc = "split"]
    /\ ShownFrame

\* the download raises: the except block of the job
ShowDownloadFailed ==
    /\ shown.pc = "download"
    /\ shown' = [shown EXCEPT !.status = "error", !.pc = "done"]
    /\ ShownFrame

\* should_split(metadata.duration): progress 'splitting' at 85 percent
ShowSplitting ==
    /\ shown.pc = "split" /\ shown.long
    /\ shown' = [set_progress(shown, "splitting", 85) EXCEPT !.pc = "feed"]
    /\ ShownFrame

\* progress 'feed' at 90 percent, the feed update and save_feed
ShowFeed ==
    /\ shown.pc = "feed" \/ (shown.pc = "split" /\ ~shown.long)
    /\ shown' = [set_progress(shown, "feed", 90) EXCEPT !.pc = "saved"]
    /\ ShownFrame

\* AUTO_PUBLISH=github: progress 'publishing' at 95 percent, the uploads
ShowPublishing ==
    /\ shown.pc = "saved" /\ shown.publish
    /\ shown' = [set_progress(shown, "publishing", 95) EXCEPT !.pc = "uploads"]
    /\ ShownFrame

\* uploaded_count > 0: progress 'updating_rss' at 97 percent, the rewrite
ShowUpdatingRss ==
    /\ shown.pc = "uploads"
    /\ shown' = [set_progress(shown, "updating_rss", 97) EXCEPT !.pc = "rewritten"]
    /\ ShownFrame

\* progress 'publishing' at 99 percent, publisher.publish
ShowPublishingPages ==
    /\ shown.pc \in {"uploads", "rewritten"}
    /\ shown' = [set_progress(shown, "publishing", 99) EXCEPT !.pc = "published"]
    /\ ShownFrame

\* the end of the job: status 'completed' after the publish block, after
\* save_feed without AUTO_PUBLISH=github, or at the 'Already in feed' return
ShowCompleted ==
    /\ shown.pc \in {"saved", "published"}
    /\ shown' = [shown EXCEPT !.status = "completed", !.pc = "done"]
    /\ ShownFrame

ShownNext ==
    \/ ShowStarting
    \/ ShowDownloading
    \/ ShowConverting
    \/ ShowDownloadFailed
    \/ ShowSplitting
    \/ ShowFeed
    \/ ShowPublishing
    \/ ShowUpdatingRss
    \/ ShowPublishingPages
    \/ ShowCompleted

\* an AudioSplitter() constructed with the default max_duration
SegDefault ==
    /\ max_duration = MAX_EPISODE_DURATION
    /\ seg_called = FALSE
    /\ total_duration = 0
    /\ segments_info = <<>>
    /\ split_needed = FALSE

\* the web service before any request, with the feed store configured
JobIdle ==
    /\ feed_max_items = 1
    /\ auto_publish = "manual"
    /\ faults = {}
    /\ requests_left = 0
    /\ io_errors = FALSE
    /\ job_id_counter = 0
    /\ jobs = <<>>
    /\ thr = <<>>
    /\ rss_file = NoFile
    /\ temp = [n \in UploadNames |-> None]

InitSeg == SegInit /\ TrInit /\ JobIdle /\ DrvIdle /\ CutIdle /\ UrlIdle
    /\ ShownIdle /\ DeletedIdle
InitDerive == SegDefault /\ TrInit /\ JobIdle /\ DrvIdle /\ CutIdle /\ UrlIdle
    /\ ShownIdle /\ DeletedIdle
SpecDerive == InitDerive /\ [][DrvNext]_vars
SpecSeg == InitSeg /\ [][SegNext]_vars

\* an AudioSplitter whose split_audio is called on a file
InitCut == SegInit /\ TrInit /\ JobIdle /\ DrvIdle /\ CutIdle /\ UrlIdle
    /\ ShownIdle /\ DeletedIdle
SpecCut == InitCut /\ [][CutNext]_vars

\* the progress of one URL job
InitProgress ==
    SegDefault /\ TrInit /\ JobIdle /\ DrvIdle /\ CutIdle /\ UrlIdle /\ ShownInit
    /\ DeletedIdle
SpecProgress == InitProgress /\ [][ShownNext]_vars

\* the URL processor applied to bounded inputs
InitUrl == SegDefault /\ TrInit /\ JobIdle /\ DrvIdle /\ CutIdle /\ UrlIdle
    /\ ShownIdle /\ DeletedIdle
SpecUrl == InitUrl /\ [][UrlNext]_vars

InitTr == SegDefault /\ TrInit /\ JobIdle /\ DrvIdle /\ CutIdle /\ UrlIdle
    /\ ShownIdle /\ DeletedIdle
SpecTr == InitTr /\ [][TrNext]_vars

\* the process ends and is started again: the request handlers and the
\* daemon threads of the old process are gone, TranscriptManager.__init__
\* runs _load, which reads status.json back into self._statuses
Restart ==
    /\ statuses' = status_file
    /\ trig' = [t \in Calls |->
                   IF trig[t].pc \in {"idle", "returned"} THEN trig[t]
                   ELSE [trig[t] EXCEPT !.pc = "killed"]]
    /\ worker' = [w \in Calls |->
                     IF worker[w].pc \in {"unborn", "finished"} THEN worker[w]
                     ELSE [worker[w] EXCEPT !.pc = "killed"]]
    /\ UNCHANGED <<status_file, transcript_files>>
    /\ TrFrame

RestartNext == TrNext \/ Restart

\* the transcript tracker in a process that can be restarted
SpecRestart == InitTr /\ [][RestartNext]_vars

\* the transcript tracker with the answers to the polls on record
PollNext ==
    \/ \E t \in Calls, guid \in Guids : TrigGetStatus(t, guid)
    \/ \E t \in Calls : TrigGuard(t)
    \/ \E t \in Calls : TrigSave(t)
    \/ \E t \in Calls : TrigSpawn(t)
    \/ \E w \in Calls : WorkerCreate(w)
    \/ \E w \in Calls : WorkerSave(w)
    \/ \E w \in Calls : WorkerPollSeen(w)
    \/ \E w \in Calls : WorkerSetDone(w)

SpecPoll == InitTr /\ [][PollNext]_vars

\* a call of start_transcription_background that has read the status runs
\* on, and so does the thread it starts
TrigRuns(t) == TrigGuard(t) \/ TrigSave(t) \/ TrigSpawn(t)
WorkerRuns(w) == WorkerCreate(w) \/ WorkerSave(w) \/ WorkerSetDone(w)

\* the request of the poll loop after which _poll_until_complete returns or
\* raises
PollReturns(w) == WorkerPoll(w) /\ worker'[w].pc # "poll"

\* threads are scheduled, every external call returns or raises, and the
\* backend eventually reports completed or error (or the request fails)
TrFairness ==
    /\ \A t \in Calls : WF_vars(TrigRuns(t))
    /\ \A w \in Calls : WF_vars(WorkerRuns(w))
    /\ \A w \in Calls : WF_vars(PollReturns(w))

SpecTrLive == InitTr /\ [][TrNext]_vars /\ TrFairness

Init == SegDefault /\ TrInit /\ JobInit /\ DrvIdle /\ CutIdle /\ UrlIdle
    /\ ShownIdle /\ DeletedIdle
Next == JobNext
Spec == Init /\ [][Next]_vars

\* the thread of job j runs on: daemon threads are scheduled and every
\* external call (download, ffmpeg, ffprobe, release upload) returns or raises
JobRuns(j) ==
    /\ j \in JobIds
    /\ \/ VideoStart(j) \/ UploadStart(j) \/ UploadMove(j) \/ JobLoad(j)
       \/ JobMerge(j) \/ JobSave(j) \/ JobPublish(j) \/ JobRewrite(j)

JobFairness == \A j \in 1..MaxLiveJobs : WF_vars(JobRuns(j))

\* the web service before any request, with either way of publishing and
\* with or without a disk that can fail the write of the feed
LiveInit ==
    /\ feed_max_items = MaxFeedCap
    /\ auto_publish \in {"manual", "github"}
    /\ faults = {}
    /\ requests_left = MaxLiveJobs
    /\ io_errors \in BOOLEAN
    /\ job_id_counter = 0
    /\ jobs = <<>>
    /\ thr = <<>>
    /\ rss_file = NoFile
    /\ temp = [n \in UploadNames |-> None]

InitLive == SegDefault /\ TrInit /\ LiveInit /\ DrvIdle /\ CutIdle /\ UrlIdle
    /\ ShownIdle /\ DeletedIdle
SpecLive == InitLive /\ [][Next]_vars /\ JobFairness

\* the web service receiving uploads only, publishing by hand
UploadInit ==
    /\ feed_max_items = MaxFeedCap
    /\ auto_publish = "manual"
    /\ faults = {}
    /\ requests_left = MaxUploads
    /\ io_errors = FALSE
    /\ job_id_counter = 0
    /\ jobs = <<>>
    /\ thr = <<>>
    /\ rss_file = NoFile
    /\ temp = [n \in UploadNames |-> None]

UploadNext ==
    \/ \E name \in UploadNames, content \in Contents : UploadFile(name, content)
    \/ \E j \in JobIds : UploadStart(j)
    \/ \E j \in JobIds : UploadMove(j)
    \/ \E j \in JobIds : JobLoad(j)
    \/ \E j \in JobIds : JobMerge(j)
    \/ \E j \in JobIds : JobSave(j)

InitUploads == SegDefault /\ TrInit /\ UploadInit /\ DrvIdle /\ CutIdle /\ UrlIdle
    /\ ShownIdle /\ DeletedIdle
SpecUploads == InitUploads /\ [][UploadNext]_vars

\* the web service receiving URLs and requests to delete an episode,
\* publishing by hand
DeleteInit ==
    /\ feed_max_items = MaxFeedCap
    /\ auto_publish = "manual"
    /\ faults = {}
    /\ requests_left = MaxRepeats
    /\ io_errors = FALSE
    /\ job_id_counter = 0
    /\ jobs = <<>>
    /\ thr = <<>>
    /\ rss_file = NoFile
    /\ temp = [n \in UploadNames |-> None]

\* the guids a client can name: those of the episodes the feed lists
DeleteNext ==
    \/ \E url \in Urls : ProcessUrl(url)
    \/ \E j \in JobIds : VideoStart(j)
    \/ \E j \in JobIds : JobLoad(j)
    \/ \E j \in JobIds : JobMerge(j)
    \/ \E j \in JobIds : JobSave(j)
    \/ \E i \in 1..Len(rss_file.items) : delete_episode(rss_file.items[i].guid)

InitDelete == SegDefault /\ TrInit /\ DeleteInit /\ DrvIdle /\ CutIdle /\ UrlIdle
    /\ ShownIdle /\ DeletedIdle
SpecDelete == InitDelete /\ [][DeleteNext]_vars

\* the web service publishing to the release while writes to the feed path
\* can fail
PublishInit ==
    /\ feed_max_items = MaxFeedCap
    /\ auto_publish = "github"
    /\ faults = {}
    /\ requests_left = MaxRepeats
    /\ io_errors = TRUE
    /\ job_id_counter = 0
    /\ jobs = <<>>
    /\ thr = <<>>
    /\ rss_file = NoFile
    /\ temp = [n \in UploadNames |-> None]

InitPublish == SegDefault /\ TrInit /\ PublishInit /\ DrvIdle /\ CutIdle /\ UrlIdle
    /\ ShownIdle /\ DeletedIdle
SpecPublish == InitPublish /\ [][Next]_vars

\* the web service receiving uploads while writes to the feed path can fail
DiskInit ==
    /\ feed_max_items = MaxFeedCap
    /\ auto_publish = "manual"
    /\ faults = {}
    /\ requests_left = MaxJobs
    /\ io_errors = TRUE
    /\ job_id_counter = 0
    /\ jobs = <<>>
    /\ thr = <<>>
    /\ rss_file = NoFile
    /\ temp = [n \in UploadNames |-> None]

InitDisk == SegDefault /\ TrInit /\ DiskInit /\ DrvIdle /\ CutIdle /\ UrlIdle
    /\ ShownIdle /\ DeletedIdle
SpecDisk == InitDisk /\ [][UploadNext]_vars

\* the web service receiving URLs, publishing by hand, on a machine where the
\* duration ffprobe measures can differ from the one of the metadata
ProbeInit ==
    /\ feed_max_items = MaxFeedCap
    /\ auto_publish = "manual"
    /\ faults = {"probe_differs"}
    /\ requests_left = MaxRepeats
    /\ io_errors = FALSE
    /\ job_id_counter = 0
    /\ jobs = <<>>
    /\ thr = <<>>
    /\ rss_file = NoFile
    /\ temp = [n \in UploadNames |-> None]

UrlJobNext ==
    \/ \E url \in Urls : ProcessUrl(url)
    \/ \E j \in JobIds : VideoStart(j)
    \/ \E j \in JobIds : JobLoad(j)
    \/ \E j \in JobIds : JobMerge(j)
    \/ \E j \in JobIds : JobSave(j)

InitProbe == SegDefault /\ TrInit /\ ProbeInit /\ DrvIdle /\ CutIdle /\ UrlIdle
    /\ ShownIdle /\ DeletedIdle
SpecProbe == InitProbe /\ [][UrlJobNext]_vars

\* the URLs of two videos
TwoVideos ==
    { [domain |-> "www.youtube.com", video_id |-> "NX7p0SAbk_M"],
      [domain |-> "youtu.be", video_id |-> "dQw4w9WgXcQ"] }

\* the feed an earlier run of the service left: one uploaded episode
EarlierFeed ==
    save_feed(add_episode(create_feed,
                          episode_of("upload", file_hash("X"), "ep",
                                     upload_description([stem |-> "ep", ext |-> ".mp3"]),
                                     single_item(file_hash("X"), ".mp3")[1])),
              MaxFeedCap)

\* the web service receiving URLs, publishing by hand, with the feed of an
\* earlier run, on a machine where a read of the feed can fail
ReloadInit ==
    /\ feed_max_items = MaxFeedCap
    /\ auto_publish = "manual"
    /\ faults = {"load_raises"}
    /\ requests_left = MaxRepeats
    /\ io_errors = FALSE
    /\ job_id_counter = 0
    /\ jobs = <<>>
    /\ thr = <<>>
    /\ rss_file = EarlierFeed
    /\ temp = [n \in UploadNames |-> None]

ReloadNext ==
    \/ \E url \in TwoVideos : ProcessUrl(url)
    \/ \E j \in JobIds : VideoStart(j)
    \/ \E j \in JobIds : JobLoad(j)
    \/ \E j \in JobIds : JobMerge(j)
    \/ \E j \in JobIds : JobSave(j)

InitReload == SegDefault /\ TrInit /\ ReloadInit /\ DrvIdle /\ CutIdle /\ UrlIdle
    /\ ShownIdle /\ DeletedIdle
SpecReload == InitReload /\ [][ReloadNext]_vars

\* the web service publishing to the release, where single uploads to the
\* release can fail
PartialInit ==
    /\ feed_max_items = MaxFeedCap
    /\ auto_publish = "github"
    /\ faults = {"upload_fails"}
    /\ requests_left = MaxRepeats
    /\ io_errors = FALSE
    /\ job_id_counter = 0
    /\ jobs = <<>>
    /\ thr = <<>>
    /\ rss_file = NoFile
    /\ temp = [n \in UploadNames |-> None]

InitPartial == SegDefault /\ TrInit /\ PartialInit /\ DrvIdle /\ CutIdle /\ UrlIdle
    /\ ShownIdle /\ DeletedIdle
SpecPartial == InitPartial /\ [][Next]_vars

\* the guids delete requests name: those of the episodes of the video, and
\* one that no episode has
DeleteGuids ==
    {episode_guid("NX7p0SAbk_M", part) : part \in 0..3} \cup {"0000000000a"}

\* the web service receiving URLs and delete requests, the responses to the
\* delete requests on record
RemoveInit ==
    /\ feed_max_items = MaxFeedCap
    /\ auto_publish = "manual"
    /\ faults = {}
    /\ requests_left = MaxLiveJobs
    /\ io_errors = FALSE
    /\ job_id_counter = 0
    /\ jobs = <<>>
    /\ thr = <<>>
    /\ rss_file = NoFile
    /\ temp = [n \in UploadNames |-> None]

RemoveNext ==
    \/ \E url \in Urls : ProcessUrl(url)
    \/ \E j \in JobIds : VideoStart(j)
    \/ \E j \in JobIds : JobLoad(j)
    \/ \E j \in JobIds : JobMerge(j)
    \/ \E j \in JobIds : JobSave(j)
    \/ \E guid \in DeleteGuids : DeleteRequest(guid)

InitRemove ==
    SegDefault /\ TrInit /\ RemoveInit /\ DrvIdle /\ CutIdle /\ UrlIdle /\ ShownIdle
    /\ DeletedIdle
SpecRemove == InitRemove /\ [][RemoveNext]_vars

\* ------------------------------------------------------------------------
\* Properties of the transcript tracker
\* ------------------------------------------------------------------------

\* the calls that got past the guard of start_transcription_background
PastGuard(t) == trig[t].pc \in {"save", "spawn"} \/ trig[t].started

\* C1: of two calls of start_transcription_background for the same guid
\* that both found its state none, exactly one returns started = TRUE (one
\* worker runs for the guid, not two).
C1_ExactlyOneStartsFromNone ==
    \A t1, t2 \in Calls :
        ( /\ t1 # t2
          /\ trig[t1].guid = trig[t2].guid
          /\ trig[t1].pc = "returned" /\ trig[t2].pc = "returned"
          /\ trig[t1].st = "none" /\ trig[t2].st = "none" )
        => (trig[t1].started # trig[t2].started)

\* C9 as stated: a call gets past the guard (sets in_progress, starts a
\* worker) only when the state it found is none; in in_progress, done and
\* error it returns started = FALSE.
C9_StartsOnlyFromNone ==
    \A t \in Calls :
        /\ PastGuard(t) => trig[t].st = "none"
        /\ (trig[t].pc = "returned" /\ trig[t].st \in {"in_progress", "done", "error"})
               => ~trig[t].started

\* C9 as amended: a call gets past the guard only when the state it found
\* is none or error; when it found in_progress or done it returns
\* started = FALSE, has started no worker, and its guard step leaves the
\* record (in memory and on disk) as it was.
C9_StartsOnlyFromNoneOrError ==
    /\ [](\A t \in Calls :
            /\ PastGuard(t) => trig[t].st \in {"none", "error"}
            /\ (trig[t].pc = "returned" /\ trig[t].st \in {"in_progress", "done"})
                   => (~trig[t].started /\ worker[t] = NoWorker))
    /\ [][\A t \in Calls :
            (trig[t].pc = "guard" /\ trig'[t].pc # "guard"
               /\ trig[t].st \in {"in_progress", "done"})
            => (statuses' = statuses /\ status_file' = status_file)]_vars

\* a call that found the state error went on and started a worker
C9_Witness ==
    \E t \in Calls :
        /\ trig[t].pc = "returned"
        /\ trig[t].st = "error"
        /\ trig[t].started
        /\ worker[t].pc # "unborn"

\* C10: a call for a guid whose status is in_progress or done returns
\* started = FALSE, starts no worker and leaves the record (status,
\* assembly id, error), the status file and the transcripts unchanged in
\* each of its steps.
C10_RepeatedTriggerIsNoOp ==
    [][\A t \in Calls :
        (trig'[t] # trig[t] /\ trig'[t].st \in {"in_progress", "done"})
        => /\ trig'[t].pc \in {"guard", "returned"}
           /\ ~trig'[t].started
           /\ statuses' = statuses
           /\ status_file' = status_file
           /\ transcript_files' = transcript_files
           /\ worker' = worker]_vars

\* a call for a guid whose status is done has returned started = FALSE
\* after the worker of an earlier call finished
C10_Witness ==
    \E t, u \in Calls :
        /\ trig[t].pc = "returned"
        /\ trig[t].st = "done"
        /\ ~trig[t].started
        /\ worker[t] = NoWorker
        /\ worker[u].pc = "finished"
        /\ statuses[trig[t].guid].status = "done"
        /\ statuses[trig[t].guid].assembly_id = transcript_id(u)

\* ------------------------------------------------------------------------
\* Properties of the segment planner
\* ------------------------------------------------------------------------

RECURSIVE SumDurations(_)
SumDurations(segs) ==
    IF segs = <<>> THEN 0 ELSE segs[1][2] + SumDurations(Tail(segs))

Planned == seg_called

\* C5: for every total > max the planned segments start at 0, are
\* contiguous, their durations sum to total, every segment except possibly
\* the last lasts exactly max, and the last one holds the remainder (it is
\* neither dropped nor merged into the one before it).
C5_SplitPlanCoversTotal ==
    (Planned /\ total_duration > max_duration) =>
        LET s == segments_info
            n == Len(s)
        IN  /\ n >= 2
            /\ s[1][1] = 0
            /\ \A i \in 1..(n - 1) : s[i][1] + s[i][2] = s[i + 1][1]
            /\ SumDurations(s) = total_duration
            /\ \A i \in 1..(n - 1) : s[i][2] = max_duration
            /\ s[n][2] > 0
            /\ s[n][2] <= max_duration
            /\ s[n][2] = total_duration - (n - 1) * max_duration

C5_Witness ==
    /\ Planned
    /\ total_duration > max_duration
    /\ Len(segments_info) = 3
    /\ segments_info[3][2] < max_duration

\* C6: for every total <= max the plan is the single segment (0, total),
\* and should_split answers total > max, so it is false exactly then.
C6_SingleSegmentWhenShort ==
    Planned =>
        /\ split_needed = (total_duration > max_duration)
        /\ (total_duration <= max_duration) =>
               /\ segments_info = << <<0, total_duration>> >>
               /\ split_needed = FALSE

C6_Witness ==
    /\ Planned
    /\ total_duration = max_duration
    /\ segments_info = << <<0, total_duration>> >>
    /\ ~split_needed

\* ------------------------------------------------------------------------
\* Properties of the ingestion jobs and the feed store
\* ------------------------------------------------------------------------

\* the guids of the items of the persisted feed document
FeedGuids == {rss_file.items[i].guid : i \in 1..Len(rss_file.items)}

\* the episodes job j derives for its request
DerivedEpisodes(j) ==
    [i \in 1..Len(thr[j].items) |->
        episode_of(thr[j].kind, thr[j].base, thr[j].title,
                   thr[j].description, thr[j].items[i])]

\* the guids job j derives for its request
DerivedGuids(j) == {DerivedEpisodes(j)[i].guid : i \in 1..Len(thr[j].items)}

\* job j runs its ingestion loop in this step
Merges(j) == thr[j].pc = "merge" /\ thr'[j].pc # "merge"

\* C2: the ingestion loop of a job adds one entry for each derived guid the
\* feed did not list and none for a guid it listed (so the merge of an
\* episode that was merged before adds 0 and writes nothing), and merging
\* one of the job's episodes a second time into the result adds 0 and leaves
\* the result unchanged.
C2_MergeTwiceAddsOne ==
    [][\A j \in JobIds :
          Merges(j) =>
            LET before == thr[j].fg
                eps == DerivedEpisodes(j)
                new == DerivedGuids(j) \ FeedGuids
                after == [fg |-> thr'[j].fg,
                          existing_guids |-> FeedGuids \cup new,
                          episodes_added |-> thr'[j].episodes_added]
            IN  /\ thr'[j].pc = "save" =>
                     /\ Len(thr'[j].fg) = Len(before) + Cardinality(new)
                     /\ thr'[j].episodes_added = Cardinality(new)
                     /\ \A g \in new :
                          CountGuid(thr'[j].fg, g) = CountGuid(before, g) + 1
                     /\ \A i \in 1..Len(eps) : merge(after, eps[i]) = after
                /\ thr'[j].pc = "done" =>
                     /\ new = {}
                     /\ rss_file' = rss_file
    ]_vars

\* a source was ingested by one job and then again by a second job: the first
\* added its episode, the second added none, the feed holds one episode
C2_Witness ==
    \E a, b \in JobIds :
        /\ a # b
        /\ thr[a].pc = "done" /\ thr[a].saved /\ thr[a].episodes_added = 1
        /\ thr[b].pc = "done" /\ thr[b].base = thr[a].base
        /\ thr[b].episodes_added = 0 /\ jobs[b].duplicate
        /\ Len(rss_file.items) = 1

\* C3: the persisted feed holds no two episodes with the same guid.
C3_PersistedGuidsUnique ==
    \A i, k \in 1..Len(rss_file.items) :
        rss_file.items[i].guid = rss_file.items[k].guid => i = k

\* C4: the document save_feed writes holds at most feed_max_items episodes.
C4_PersistWithinCap ==
    [][\A j \in JobIds :
          (thr[j].pc = "save" /\ thr'[j].pc # "save") =>
              Len(rss_file'.items) <= feed_max_items
    ]_vars

\* the status changes the lifecycle allows
StatusStep(a, b) ==
    <<a, b>> \in { <<"pending", "processing">>,
                   <<"processing", "completed">>,
                   <<"processing", "error">> }

\* C7: the statuses a job record has held are pending, then processing, then
\* completed or error, each change being one of the lifecycle.
C7_StatusOnlyMovesForward ==
    \A j \in JobIds :
        /\ jobs[j].log # <<>>
        /\ jobs[j].log[1] = "pending"
        /\ \A i \in 1..(Len(jobs[j].log) - 1) :
              StatusStep(jobs[j].log[i], jobs[j].log[i + 1])

\* C8: when a job consults the feed and every guid it derived (at least one)
\* is in the persisted document, the job ends completed with duplicate set,
\* and the document is not written; a job marked duplicate is completed and
\* has written nothing.
C8_AllPresentEndsDuplicate ==
    /\ [](\A j \in JobIds :
             jobs[j].duplicate =>
                 /\ jobs[j].status = "completed"
                 /\ thr[j].pc = "done"
                 /\ ~thr[j].saved)
    /\ [][\A j \in JobIds :
             (Merges(j) /\ DerivedGuids(j) # {} /\ DerivedGuids(j) \subseteq FeedGuids) =>
                 /\ jobs'[j].status = "completed"
                 /\ jobs'[j].duplicate
                 /\ thr'[j].pc = "done"
                 /\ ~thr'[j].saved
                 /\ rss_file' = rss_file
       ]_vars

\* a file was uploaded and split into three parts, and the same bytes were
\* uploaded again: the second job ended completed with duplicate set and
\* wrote nothing, and the feed holds the three parts
C8_Witness ==
    \E a, b \in JobIds :
        /\ a # b
        /\ thr[a].kind = "upload" /\ thr[a].saved /\ thr[a].episodes_added = 3
        /\ thr[b].kind = "upload" /\ thr[b].base = thr[a].base
        /\ thr[b].pc = "done" /\ ~thr[b].saved
        /\ jobs[b].status = "completed" /\ jobs[b].duplicate
        /\ Len(rss_file.items) = 3

\* the persisted document holds an episode of the source with this base id
FeedHoldsSource(base) ==
    \E i \in 1..Len(rss_file.items) :
        \/ rss_file.items[i].guid = base
        \/ starts_with(rss_file.items[i].guid, base \o "_part")

\* job j has ended completed after saving episodes it added
EndedWithSave(j) ==
    /\ thr[j].pc = "done"
    /\ jobs[j].status = "completed"
    /\ thr[j].saved
    /\ thr[j].episodes_added > 0

\* C11: when two jobs for different sources have both ended completed after
\* adding and saving episodes, the persisted feed holds episodes of both
\* sources.
C11_BothSourcesPersisted ==
    \A a, b \in JobIds :
        (a # b /\ EndedWithSave(a) /\ EndedWithSave(b) /\ thr[a].base # thr[b].base)
            => FeedHoldsSource(thr[a].base) /\ FeedHoldsSource(thr[b].base)

\* job j's save_feed raises an I/O error in this step
SaveFails(j) == thr[j].pc = "save" /\ thr'[j].save_failed

\* C12: when save_feed raises an I/O error, the document at the feed path is
\* the one that was there before the call.
C12_FailedSaveKeepsDocument ==
    [][\A j \in JobIds : SaveFails(j) => rss_file' = rss_file]_vars

\* ------------------------------------------------------------------------
\* Progress of the transcript tracker and of the jobs
\* ------------------------------------------------------------------------

\* C13: a transcript record that is in_progress eventually is done or error.
C13_InProgressLeadsToEnd ==
    \A g \in Guids :
        (statuses[g].status = "in_progress")
            ~> (statuses[g].status \in {"done", "error"})

\* a worker raised an exception while the record was in_progress, and the
\* record now holds error with the exception as its message
C13_Witness ==
    \E w \in Calls :
        /\ worker[w].pc = "finished"
        /\ statuses[worker[w].guid].status = "error"
        /\ statuses[worker[w].guid].error = "exception"
        /\ status_file[worker[w].guid].status = "error"

\* the messages an except block or the URL check leaves in a job record
ErrorMessages == {"Error: exception", "Invalid YouTube URL"}

\* C14: every job that was created eventually is completed or error; a job
\* whose thread has returned is completed or error, and a job that is error
\* carries an error message.
C14_JobLeadsToEnd ==
    /\ \A j \in 1..MaxLiveJobs :
          (j \in JobIds)
              ~> (j \in JobIds /\ jobs[j].status \in {"completed", "error"})
    /\ [](\A j \in JobIds :
             /\ thr[j].pc = "done" => jobs[j].status \in {"completed", "error"}
             /\ jobs[j].status = "error" =>
                    thr[j].pc = "done" /\ jobs[j].message \in ErrorMessages)

\* a job whose worker raised an exception has ended in error with a message
C14_Witness ==
    \E j \in JobIds :
        /\ thr[j].pc = "done"
        /\ jobs[j].status = "error"
        /\ jobs[j].message = "Error: exception"

\* C15: a job in which an external step failed (here: split_audio raised on
\* the cut of a segment) does not end completed.
C15_FailedStepEndsInError ==
    \A j \in JobIds : thr[j].split_failed => jobs[j].status # "completed"

\* ------------------------------------------------------------------------
\* Properties of the derivation of an episode
\* ------------------------------------------------------------------------

\* C16: the guid derived for a file without a part index is the base id, the
\* guid derived for part k is the base id followed by _part and k, and no
\* other part index of the same base id gives the same guid.
C16_GuidDerivation ==
    drv.called =>
        /\ drv.part = 0 => drv.episode.guid = drv.base
        /\ drv.part # 0 =>
              drv.episode.guid = drv.base \o "_part" \o ToString(drv.part)
        /\ \A k \in 0..MaxParts :
              k # drv.part => episode_guid(drv.base, k) # drv.episode.guid

\* the guid of part 3 of a source has been derived
C16_Witness ==
    /\ drv.called
    /\ drv.part = 3
    /\ drv.episode.guid = "NX7p0SAbk_M_part3"

\* C18: on both paths the episode of part k of n has the title
\* "{baseTitle} (Part {k}/{n})" and the base description with the same part
\* marker appended; an episode of an unsplit source keeps both unchanged.
C18_PartMarkerOnTitleAndDescription ==
    drv.called =>
        IF drv.part # 0
        THEN /\ drv.episode.title = drv.title \o part_marker(drv.part, drv.total)
             /\ drv.episode.description =
                   drv.description \o part_marker(drv.part, drv.total)
        ELSE /\ drv.episode.title = drv.title
             /\ drv.episode.description = drv.description

\* ------------------------------------------------------------------------
\* Properties of multi-part ingestion
\* ------------------------------------------------------------------------

\* job j has run its ingestion loop on a source split into n > 1 parts none
\* of which the feed listed, and is about to write the feed
AddedAllParts(j) ==
    /\ j \in JobIds
    /\ thr[j].pc = "save"
    /\ Len(thr[j].items) > 1
    /\ thr[j].episodes_added = Len(thr[j].items)

\* the entry the ingestion loop of job j added for part k of n (entries are
\* prepended, so the last part is the first entry)
AddedPart(j, k) == thr[j].fg[Len(thr[j].items) - k + 1]

\* C17 as stated: the n episodes of a source split into n > 1 parts have the
\* guids base for part 1 and base_partK for K = 2..n, and the titles
\* "(Part 1/n)" .. "(Part n/n)".
C17_FirstPartKeepsBaseGuid ==
    \A j \in JobIds :
        AddedAllParts(j) =>
            LET n == Len(thr[j].items)
            IN  \A k \in 1..n :
                  /\ AddedPart(j, k).guid =
                        IF k = 1 THEN thr[j].base
                        ELSE thr[j].base \o "_part" \o ToString(k)
                  /\ AddedPart(j, k).title =
                        thr[j].title \o part_marker(k, n)

\* C17 amended: the n episodes of a source split into n > 1 parts have the
\* guids base_partK for K = 1..n, the first part included, and the titles
\* "(Part 1/n)" .. "(Part n/n)".
C17_EveryPartHasIndexedGuid ==
    \A j \in JobIds :
        AddedAllParts(j) =>
            LET n == Len(thr[j].items)
            IN  \A k \in 1..n :
                  /\ AddedPart(j, k).guid =
                        thr[j].base \o "_part" \o ToString(k)
                  /\ AddedPart(j, k).title =
                        thr[j].title \o part_marker(k, n)

\* a job has added the three parts of the 125-minute video to its feed
C17_Witness ==
    \E j \in JobIds :
        /\ AddedAllParts(j)
        /\ thr[j].kind = "url"
        /\ Len(thr[j].items) = 3
        /\ AddedPart(j, 1).guid = "NX7p0SAbk_M_part1"
        /\ AddedPart(j, 3).title = "Live (Part 3/3)"

\* the feed lists some but not all of the part guids of the request of job j
PartlyListed(j) ==
    /\ Len(thr[j].items) > 1
    /\ DerivedGuids(j) \cap FeedGuids # {}
    /\ DerivedGuids(j) \ FeedGuids # {}

\* job j writes the feed in this step after a loop that skipped some parts
SavesSomeParts(j) ==
    /\ thr[j].pc = "save" /\ thr'[j].pc # "save"
    /\ Len(thr[j].items) > 1
    /\ thr[j].episodes_added < Len(thr[j].items)

\* C19: when the feed lists some but not all part guids of a multi-part
\* request, the ingestion loop of the job adds the episode of each missing
\* part once, adds no episode of a listed part, and goes on to write the
\* feed; the write persists the document with the added parts and the job
\* ends completed without the duplicate marker.
C19_PartlyListedAddsMissingParts ==
    [][\A j \in JobIds :
          /\ (Merges(j) /\ PartlyListed(j)) =>
                LET eps == DerivedEpisodes(j)
                    missing == {i \in 1..Len(eps) : eps[i].guid \notin FeedGuids}
                    m == Cardinality(missing)
                    fg == thr'[j].fg
                IN  /\ thr'[j].pc = "save"
                    /\ thr'[j].episodes_added = m
                    /\ Len(fg) = Len(thr[j].fg) + m
                    /\ SubSeq(fg, m + 1, Len(fg)) = thr[j].fg
                    /\ \A i \in missing :
                          Cardinality({k \in 1..m : fg[k] = eps[i]}) = 1
                    /\ \A k \in 1..m : fg[k].guid \notin FeedGuids
                    /\ ~jobs'[j].duplicate
          /\ SavesSomeParts(j) =>
                /\ rss_file'.exists /\ rss_file'.intact
                /\ rss_file'.items = thr[j].fg
                /\ thr'[j].saved
                /\ jobs'[j].status = "completed"
                /\ ~jobs'[j].duplicate
    ]_vars

\* a job found two of the three parts of its video listed (the third had
\* been deleted), added the one missing part, wrote the feed and completed
C19_Witness ==
    \E j \in JobIds :
        /\ thr[j].pc = "done"
        /\ thr[j].base = "NX7p0SAbk_M"
        /\ thr[j].saved
        /\ thr[j].episodes_added = 1
        /\ jobs[j].status = "completed"
        /\ ~jobs[j].duplicate
        /\ Len(rss_file.items) = 3

\* ------------------------------------------------------------------------
\* Properties of split_audio
\* ------------------------------------------------------------------------

\* C20: when the cut of a segment fails, split_audio raises and no part file
\* of the source is left on disk, neither a part cut before nor a cut-off
\* file of the failing part.
C20_FailedCutLeavesNoPartFile ==
    cut.pc = "raised" => cut.disk = {}

\* ------------------------------------------------------------------------
\* Properties of the feed store
\* ------------------------------------------------------------------------

\* job j makes its call of load_existing_feed in this step
Loads(j) == thr[j].pc = "load" /\ thr'[j].pc # "load"

Before(items, g, h) ==
    \E a, b \in 1..Len(items) :
        a < b /\ items[a].guid = g /\ items[b].guid = h

\* the guids a document lists
GuidsOf(items) == {items[i].guid : i \in 1..Len(items)}

\* C22: a write of the feed keeps the relative order of the episodes the
\* document already held: two episodes that are in the document before and
\* after the write stand in the same order in both.
C22_WriteKeepsOrder ==
    [][\A g \in GuidsOf(rss_file.items) \cap GuidsOf(rss_file'.items) :
         \A h \in GuidsOf(rss_file.items) \cap GuidsOf(rss_file'.items) :
            (g # h /\ Before(rss_file.items, g, h)
                   /\ ~Before(rss_file.items, h, g))
                => Before(rss_file'.items, g, h)
    ]_vars

\* ------------------------------------------------------------------------
\* Properties of the transcript records
\* ------------------------------------------------------------------------

\* C23: done is terminal: no step of a trigger or of a worker changes the
\* status of a guid whose status is done.
C23_DoneIsTerminal ==
    [][\A g \in Guids :
          statuses[g].status = "done" => statuses'[g].status = "done"
    ]_vars

\* C24: when a poll is answered with a failure or with a status that is none
\* of queued, processing and completed, the worker stops polling and sets
\* the record of its guid to error with a message.
C24_UnexpectedAnswerEndsInError ==
    [][\A w \in Calls :
          (worker[w].pc = "poll" /\ polled'[w] # polled[w]
              /\ polled'[w] \in {"unknown", "error", "raised"}) =>
                /\ worker'[w].pc # "poll"
                /\ statuses'[worker[w].guid].status = "error"
                /\ statuses'[worker[w].guid].error # None
    ]_vars

\* C25: in every state a guid whose status is done, in memory or in the
\* status file, has its transcript text on disk.
C25_DoneHasTranscript ==
    \A g \in Guids :
        /\ statuses[g].status = "done" => g \in transcript_files
        /\ status_file[g].status = "done" => g \in transcript_files

\* a worker has written the transcript of a guid, set it to done and saved
C25_Witness ==
    \E w \in Calls :
        /\ worker[w].pc = "finished"
        /\ statuses[worker[w].guid].status = "done"
        /\ status_file[worker[w].guid].status = "done"
        /\ worker[w].guid \in transcript_files

\* a set_status call has updated the map and has yet to run its _save
SavePending ==
    \/ \E t \in Calls : trig[t].pc = "save"
    \/ \E w \in Calls : worker[w].pc \in {"save_id", "save_end"}

\* the call of trigger t or of worker w is for guid g and takes this step
StepFor(g) ==
    \/ \E t \in Calls : trig[t].guid = g /\ trig'[t] # trig[t]
    \/ \E w \in Calls : worker[w].guid = g /\ worker'[w] # worker[w]

\* C26: no status update is lost: a step changes the entry of a guid only
\* when it is a set_status for that guid, whatever calls for other guids are
\* under way, and whenever no set_status has its save outstanding the status
\* file holds the same entry as the map in memory for every guid.
C26_NoStatusUpdateLost ==
    /\ [](~SavePending => status_file = statuses)
    /\ [][\A g \in Guids : statuses'[g] # statuses[g] => StepFor(g)]_vars

\* the calls for two guids ran interleaved to their ends: a worker of each
\* has finished, nothing is left to save, and file and map hold both entries
C26_Witness ==
    /\ ~SavePending
    /\ \E a, b \in Calls :
          /\ worker[a].pc = "finished" /\ worker[b].pc = "finished"
          /\ worker[a].guid # worker[b].guid
    /\ \A g \in Guids : statuses[g] # NoEntry /\ status_file[g] = statuses[g]

\* ------------------------------------------------------------------------
\* Properties of the job records
\* ------------------------------------------------------------------------

\* the place of a progress stage in the pipeline order starting ->
\* downloading | uploading -> converting -> splitting -> feed -> publishing
\* -> completed; 0 for a value that is no stage of that list
StageRank(stage) ==
    CASE stage = "starting" -> 1
      [] stage \in {"downloading", "uploading"} -> 2
      [] stage = "converting" -> 3
      [] stage = "splitting" -> 4
      [] stage = "feed" -> 5
      [] stage = "publishing" -> 6
      [] stage = "completed" -> 7
      [] OTHER -> 0

\* no step writes a stage of the list after a later one
StageNeverGoesBack ==
    [][\A j \in JobIds :
          (StageRank(jobs[j].progress) > 0 /\ StageRank(jobs'[j].progress) > 0)
             => StageRank(jobs'[j].progress) >= StageRank(jobs[j].progress)
    ]_vars

\* C27: the stages written to a job record follow the pipeline order (no
\* stage of the list is written after a later one), and a job whose status
\* is completed has the stage completed.
C27_StagesInPipelineOrder ==
    /\ [](\A j \in JobIds :
             jobs[j].status = "completed" => jobs[j].progress = "completed")
    /\ StageNeverGoesBack

\* the jobs a step creates
Created == DOMAIN jobs' \ DOMAIN jobs

\* C28: a request with a URL that is not a valid YouTube URL, or with a file
\* name of a type that is not allowed, gets no job: every job record a step
\* creates is for a valid URL or for an allowed file name.
C28_BadRequestGetsNoJob ==
    [][\A j \in Created :
          /\ thr'[j].kind = "url" => valid_url(thr'[j].url)
          /\ thr'[j].kind = "upload" => allowed_file(thr'[j].name)
    ]_vars

\* the publisher of job j is at work, or the record shows a stage of it
PublisherInvoked(j) ==
    \/ thr[j].pc \in {"publish", "rewrite"}
    \/ jobs[j].progress \in {"publishing", "uploading", "updating_rss"}
    \/ jobs[j].message = "Publish failed"

\* job j enters its publish section in this step
StartsPublishing(j) ==
    thr[j].pc # "publish" /\ thr'[j].pc = "publish"

\* C29: the publisher of a job is invoked only after save_feed returned in
\* that job: a job enters its publish section only in the step in which its
\* write of the feed succeeded, and a job whose write failed or that ended
\* as a duplicate never shows the publisher at work.
C29_PublishOnlyAfterSave ==
    /\ [](\A j \in JobIds :
             /\ PublisherInvoked(j) => thr[j].saved
             /\ (thr[j].save_failed \/ jobs[j].duplicate) => ~PublisherInvoked(j))
    /\ [][\A j \in JobIds :
             StartsPublishing(j) =>
                /\ thr[j].pc = "save"
                /\ rss_file'.exists /\ rss_file'.intact
                /\ rss_file'.items = thr[j].fg
       ]_vars

\* one job published after its save while another ended without publishing,
\* its save failed or its source already in the feed
C29_Witness ==
    \E a, b \in JobIds :
        /\ thr[a].pc = "done" /\ thr[a].saved
        /\ jobs[a].message = "Publish failed"
        /\ thr[b].pc = "done" /\ ~thr[b].saved
        /\ thr[b].save_failed \/ jobs[b].duplicate

\* a request is accepted in this step
Accepts == requests_left' < requests_left

\* C30: job ids are unique and strictly increasing in creation order: each
\* accepted request gets an id above every id given before, its record is
\* new, and the records of the other jobs are left as they were; the ids in
\* use are 1 up to the counter.
C30_JobIdsUniqueAndIncreasing ==
    /\ [](DOMAIN jobs = 1..job_id_counter /\ DOMAIN thr = DOMAIN jobs)
    /\ [][Accepts =>
             /\ job_id_counter' > job_id_counter
             /\ \A k \in DOMAIN jobs : k < job_id_counter'
             /\ DOMAIN jobs' = DOMAIN jobs \cup {job_id_counter'}
             /\ jobs'[job_id_counter'].status = "pending"
             /\ \A k \in DOMAIN jobs : jobs'[k] = jobs[k] /\ thr'[k] = thr[k]
       ]_vars

\* a URL request and an upload were accepted while the job of the first was
\* still running: they hold the ids 1 and 2
C30_Witness ==
    /\ job_id_counter = 2
    /\ DOMAIN jobs = {1, 2}
    /\ thr[1].kind # thr[2].kind
    /\ thr[1].pc \notin {"start", "done"}
    /\ jobs[2].status = "pending"

\* ------------------------------------------------------------------------
\* Properties of the segments
\* ------------------------------------------------------------------------

\* the AudioSegments of the call of split_audio carry the part numbers 1, 2,
\* ... in order and the number of planned segments as their total, and a
\* call that returned after cutting produced one for each planned segment
PartsNumbered ==
    /\ \A k \in 1..Len(cut.segments) :
          /\ cut.segments[k].part_number = k
          /\ cut.segments[k].total_parts = Len(cut.plan)
    /\ (cut.pc = "returned" /\ cut.plan # <<>>) =>
          Len(cut.segments) = Len(cut.plan)

\* C31 as stated: every planned segment, for every total duration >= 0,
\* starts at an offset >= 0 and lasts more than 0 and at most max seconds;
\* the AudioSegments of split_audio are numbered 1..n with total n.
C31_SegmentsPositive ==
    /\ seg_called =>
          \A i \in 1..Len(segments_info) :
              /\ segments_info[i][1] >= 0
              /\ segments_info[i][2] > 0
              /\ segments_info[i][2] <= max_duration
    /\ PartsNumbered

\* C31 amended: every planned segment starts at an offset >= 0 and lasts at
\* most max seconds, and more than 0 seconds when the total duration is more
\* than 0 (the plan of a total of 0 is the one segment (0, 0)); the
\* AudioSegments of split_audio are numbered 1..n with total n.
C31_SegmentsWithinMax ==
    /\ seg_called =>
          /\ \A i \in 1..Len(segments_info) :
                /\ segments_info[i][1] >= 0
                /\ segments_info[i][2] <= max_duration
                /\ total_duration > 0 => segments_info[i][2] > 0
          /\ total_duration = 0 => segments_info = << <<0, 0>> >>
    /\ PartsNumbered

\* the planner was called on a total that needs three segments, and a call
\* of split_audio has cut three parts and returned
C31_Witness ==
    /\ seg_called /\ Len(segments_info) = 3
    /\ cut.pc = "returned" /\ Len(cut.segments) = 3
    /\ cut.segments[3].part_number = 3 /\ cut.segments[3].total_parts = 3

\* ------------------------------------------------------------------------
\* Properties of the writers of the feed document
\* ------------------------------------------------------------------------

\* job j runs save_feed in this step, on the feed its ingestion loop built
RunsSaveFeed(j) == thr[j].pc = "save" /\ thr'[j].pc # "save"

\* C32: the feed document is changed only by the save_feed of a job, after
\* the add_episode calls of its ingestion loop: every step that changes the
\* document is such a save.
C32_OnlySaveFeedWrites ==
    [][rss_file' # rss_file => \E j \in JobIds : RunsSaveFeed(j)]_vars

\* ------------------------------------------------------------------------
\* Properties of the URL processor
\* ------------------------------------------------------------------------

\* the well-formed ids among the ids of the inputs
WellFormedIds == {"NX7p0SAbk_M", "abc123XYZ-_"}

\* url is of a supported shape and carries id: youtu.be/<id>, or on one of
\* the youtube.com hosts /watch?v=<id>, /live/<id>, /shorts/<id>, /embed/<id>
\* or /v/<id>
SupportedShape(url, id) ==
    \/ url.netloc = "youtu.be" /\ url.path = "/" \o id
    \/ /\ url.netloc \in {"youtube.com", "www.youtube.com", "m.youtube.com"}
       /\ \/ url.path = "/watch" /\ url.v = id
          \/ \E prefix \in {"/live/", "/shorts/", "/embed/", "/v/"} :
                url.path = prefix \o id

\* the host of url is none of the YouTube hosts
OtherDomain(url) == \A domain \in VALID_DOMAINS : str_lower(url.netloc) # domain

\* url holds a well-formed id, as its v parameter or in its path
HoldsId(url) ==
    \E id \in WellFormedIds : url.v = id \/ str_find(url.path, id) # 0

\* C33: parse_url accepts every URL of a supported shape that carries a
\* well-formed 11-character id, returns exactly that id and normalizes the URL
\* to https://www.youtube.com/watch?v=<id>; it raises for a URL of another
\* domain and for a URL that holds no well-formed id; process_urls returns the
\* parsed URLs of the supported URLs of its list, in the order of the list.
C33_UrlsParsed ==
    /\ parsed.called = "parse_url" =>
          LET url == parsed.urls[1]
              result == parsed.results[1]
          IN  /\ \A id \in WellFormedIds :
                    SupportedShape(url, id) =>
                        /\ result.raised = None
                        /\ result.video_id = id
                        /\ normalized_url(result)
                              = "https://www.youtube.com/watch?v=" \o id
              /\ (OtherDomain(url) \/ ~HoldsId(url)) => result.raised # None
    /\ parsed.called = "process_urls" =>
          LET kept == SelectSeq(parsed.urls,
                                LAMBDA url : \E id \in WellFormedIds :
                                                SupportedShape(url, id))
          IN  /\ Len(parsed.results) = Len(kept)
              /\ \A i \in 1..Len(kept) :
                    /\ parsed.results[i].original_url = kept[i]
                    /\ SupportedShape(kept[i], parsed.results[i].video_id)

\* process_urls was handed a URL of another site followed by a live-stream
\* URL, and returned the live stream alone
C33_Witness ==
    /\ parsed.called = "process_urls"
    /\ Len(parsed.urls) = 2
    /\ parsed.urls[1].netloc = "vimeo.com"
    /\ parsed.urls[2].path = "/live/NX7p0SAbk_M"
    /\ Len(parsed.results) = 1
    /\ parsed.results[1].video_id = "NX7p0SAbk_M"

\* ------------------------------------------------------------------------
\* Properties of the duplicate report
\* ------------------------------------------------------------------------

\* C34: a job is reported as a duplicate only if it derived at least one GUID
\* and every GUID it derived was already in the feed: in the step that sets
\* duplicate, the job has derived a GUID and the feed holds all of them.
C34_DuplicateHasGuids ==
    [][\A j \in JobIds :
          (~jobs[j].duplicate /\ jobs'[j].duplicate) =>
              /\ DerivedGuids(j) # {}
              /\ DerivedGuids(j) \subseteq get_existing_guids(rss_file)]_vars

\* ------------------------------------------------------------------------
\* Properties of a job that runs alone
\* ------------------------------------------------------------------------

\* no other job has written the feed or is still running
Alone(j) == \A k \in JobIds \ {j} : thr[k].pc = "done" /\ ~thr[k].saved

\* C35: a job that runs without concurrent jobs never removes episodes that
\* are in the feed: every guid the document holds before the save_feed of
\* such a job is in the document after it.
C35_LoneJobKeepsEpisodes ==
    [][\A j \in JobIds :
          (RunsSaveFeed(j) /\ Alone(j)) =>
              get_existing_guids(rss_file) \subseteq get_existing_guids(rss_file')]_vars

\* ------------------------------------------------------------------------
\* Properties of the transcript records
\* ------------------------------------------------------------------------

\* a thread of the process is working on guid: a call that is about to start
\* the worker, or a worker that has not finished
LiveWorker(guid) ==
    \E t \in Calls :
        \/ trig[t].guid = guid /\ trig[t].pc \in {"save", "spawn"}
        \/ /\ worker[t].guid = guid
           /\ worker[t].pc \in {"start", "save_id", "poll", "set_done", "save_end"}

\* C36: a record whose status is in_progress always has a live worker, also
\* after a restart of the process that reloads the status store.
C36_InProgressHasWorker ==
    \A guid \in Guids :
        statuses[guid].status = "in_progress" => LiveWorker(guid)

\* C37: a record carries an error value only while its status is error.
C37_ErrorOnlyWithErrorStatus ==
    \A guid \in Guids :
        statuses[guid].error # None => statuses[guid].status = "error"

\* ------------------------------------------------------------------------
\* Properties of the release-URL rewrite
\* ------------------------------------------------------------------------

\* job j runs the rewrite of the enclosure URLs in this step
RunsRewrite(j) == thr[j].pc = "rewrite" /\ thr'[j].pc # "rewrite"

\* C38: the enclosure URL is rewritten to the release only for episodes
\* whose file upload succeeded: every item the rewrite of a job turns to the
\* release URL is the episode of a file the job uploaded.
C38_RewriteOnlyUploaded ==
    [][\A j \in JobIds :
          RunsRewrite(j) =>
              \A i \in 1..Len(rss_file'.items) :
                  (/\ rss_file'.items[i].url.host = "github"
                   /\ thr[j].tree.items[i].url.host # "github")
                      => rss_file'.items[i].url.file \in thr[j].uploaded]_vars

\* ------------------------------------------------------------------------
\* Properties of the progress of a job
\* ------------------------------------------------------------------------

\* C39: the percentage of the progress of a job never decreases while the
\* job is processing.
C39_PercentNeverDecreases ==
    [][(shown.status = "processing" /\ shown'.status = "processing")
          => shown'.percent >= shown.percent]_vars

\* ------------------------------------------------------------------------
\* Properties of the delete request
\* ------------------------------------------------------------------------

\* the step of a delete request: no job is created and no job thread moves
DeleteStep == UNCHANGED <<jobs, thr>>

\* the feed document holds an item with the guid
Listed(guid) ==
    rss_file.exists /\ \E i \in 1..Len(rss_file.items) : rss_file.items[i].guid = guid

====
